---- MODULE Spec2Model ----
(***************************************************************************)
(* Box-layout core: the grid layouter (src/src/library/grid.rs) and the    *)
(* flow layouter (src/src/library/flow.rs) as state machines.              *)
(*                                                                         *)
(* Lengths are f64 points in the source.  Here a length is an integer      *)
(* number of 1/Unit points, and every input length is a whole number of    *)
(* points; Unit is chosen so that every division the layouters perform on  *)
(* those inputs is exact.  Arithmetic is therefore exact rational          *)
(* arithmetic: f64 rounding is not modelled.  An infinite length (a region *)
(* of unbounded height) is the value Inf.                                  *)
(* Indices x, y are 0-based as in the source; sequences are 1-based.       *)
(***************************************************************************)
EXTENDS Integers, Sequences, FiniteSets, TLC

\* ------------------------------------------------------------ bounds
\* Longest list of content column tracks given (column measurement).
MaxCols == 3
\* Longest list of content row tracks given (row layout).
MaxRows == 2
\* Most children of a grid node (row layout).
MaxChildren == 2
\* Most children of a flow node.
MaxFlowChildren == 3
\* Longest backlog of a region sequence.
MaxBacklog == 1
\* Embed elements in a document.
MaxEmbeds == 3

\* ------------------------------------------------------- arithmetic
Max(a, b) == IF a >= b THEN a ELSE b
Min(a, b) == IF a <= b THEN a ELSE b

RECURSIVE Gcd(_, _)
Gcd(a, b) == IF b = 0 THEN a ELSE Gcd(b, a % b)

RECURSIVE LcmUpTo(_)
LcmUpTo(n) == IF n <= 1 THEN 1 ELSE (LcmUpTo(n - 1) * n) \div Gcd(LcmUpTo(n - 1), n)

\* One point.  Divisors met: 2 (relative lengths, centering) twice in a
\* row, and then a count of Auto columns or a sum of fractional weights (each
\* weight at most 2).
Unit == 4 * LcmUpTo(2 * (Max(MaxCols, Max(MaxChildren, MaxFlowChildren)) + 1))
Pt(n) == n * Unit

\* Length::inf()
Inf == 1000 * Unit
is_finite(a) == a # Inf

\* a - b and a + b on lengths where a may be infinite (b is finite).
LSub(a, b) == IF a = Inf THEN Inf ELSE a - b

\* Length::fits: self >= other (up to the source's rounding tolerance).
fits(a, b) == a >= b

RECURSIVE SumSeq(_)
SumSeq(s) == IF s = <<>> THEN 0 ELSE Head(s) + SumSeq(Tail(s))

\* Option<T>
None == <<>>
Some(v) == <<v>>

Size(x, y) == [x |-> x, y |-> y]

\* ----------------------------------------------------- track sizing
Auto == [t |-> "auto", abs |-> 0, rel |-> 0, fr |-> 0]
\* Linear { rel, abs }: rel counts halves of the base (0, 1/2, 1).
Linear(abs, rel) == [t |-> "linear", abs |-> abs, rel |-> rel, fr |-> 0]
Fractional(n) == [t |-> "fr", abs |-> 0, rel |-> 0, fr |-> n]

\* Linear::resolve(base): rel * base + abs; a zero rel resolves to zero
\* also against an infinite base.
LinearResolve(v, base) ==
  IF v.rel = 0 THEN v.abs
  ELSE IF base = Inf THEN Inf
  ELSE ((v.rel * base) \div 2) + v.abs

\* Fractional::resolve(total, remaining): (self / total) * remaining, and zero
\* when the ratio or the remaining length is not finite.
FractionalResolve(v, total, remaining) ==
  IF total = 0 \/ ~is_finite(remaining) THEN 0
  ELSE (v * remaining) \div total

\* ----------------------------------------------------------- regions
\* Regions { current, base, backlog, last, expand }
RegionsOne(size, base, expand) ==
  [current |-> size, base |-> base, backlog |-> <<>>, last |-> None, expand |-> expand]

\* Regions::in_last
in_last(r) ==
  /\ r.backlog = <<>>
  /\ (r.last = None \/ r.current.y = r.last[1].y)

\* Regions::is_full
is_full(r) == fits(0, r.current.y) /\ ~in_last(r)

\* Regions::next
next(r) ==
  IF r.backlog # <<>>
    THEN [r EXCEPT !.current = Head(r.backlog), !.base = Head(r.backlog),
                   !.backlog = Tail(r.backlog)]
  ELSE IF r.last # None
    THEN [r EXCEPT !.current = r.last[1], !.base = r.last[1]]
  ELSE r

\* Regions::mutate with |size| size.x = w
SetWidth(r, w) ==
  [r EXCEPT !.current = Size(w, r.current.y),
            !.base = Size(w, r.base.y),
            !.backlog = [i \in 1..Len(r.backlog) |-> Size(w, r.backlog[i].y)],
            !.last = IF r.last = None THEN None ELSE Some(Size(w, r.last[1].y))]

\* Whether a further region follows the current one.
HasNext(r) == r.backlog # <<>> \/ r.last # None

\* ------------------------------------------------------- child nodes
\* A child node is opaque to the layouters: layout(regions) -> frames.  The
\* nodes of this model are boxes of natural size w x h; a breakable box
\* (brk, a paragraph or nested flow) continues in the next region when it
\* does not fit, a rigid one overflows.  A breakable box of lines (line > 0)
\* puts only whole lines into a region, so its frame may be shorter than
\* the region.  A frame fills the region on an axis the region expands;
\* otherwise it keeps its natural width.
RECURSIVE NodeSizes(_, _, _)
NodeSizes(node, h, r) ==
  LET avail == Max(r.current.y, 0)
      w == IF r.expand.x THEN r.current.x ELSE node.w
      grow == r.expand.y /\ is_finite(r.current.y)
      take == IF node.line = 0 THEN avail ELSE avail - (avail % node.line)
  IN IF node.brk /\ h > avail /\ HasNext(r)
       THEN <<Size(w, IF grow THEN avail ELSE take)>> \o NodeSizes(node, h - take, next(r))
       ELSE <<Size(w, IF grow THEN r.current.y ELSE h)>>

NodeLayout(node, r) == NodeSizes(node, node.h, r)

\* Frame { size, children }: an item is a positioned child frame.
Item(x, y, child, size) == [pos |-> Size(x, y), child |-> child, size |-> size]

\* Constraints::new(expand)
ConstraintsNew(expand) ==
  [min |-> Size(None, None), max |-> Size(None, None),
   exact |-> Size(None, None), base |-> Size(None, None), expand |-> expand]

\* ================================================================ grid
\* GridNode { tracks, gutter, children }; tracks and gutter are Spec<Vec<_>>.
GridNode(tx, ty, gx, gy, children) ==
  [tracks |-> Size(tx, ty), gutter |-> Size(gx, gy), children |-> children]

\* get_or: tracks.get(idx).or(tracks.last()).copied().unwrap_or(default)
get_or(tracks, idx, default) ==
  IF idx < Len(tracks) THEN tracks[idx + 1]
  ELSE IF tracks # <<>> THEN tracks[Len(tracks)]
  ELSE default

\* for i in 0 .. n { push(get_or(content, i, auto)); push(get_or(gutter, i, zero)) }
RECURSIVE Interleave(_, _, _)
Interleave(content, gutter, n) ==
  IF n = 0 THEN <<>>
  ELSE Interleave(content, gutter, n - 1)
         \o << get_or(content, n - 1, Auto), get_or(gutter, n - 1, Linear(0, 0)) >>

\* A slip in new: the superfluous gutter track not removed.
Pop_keep(s) == s

\* Vec::pop
Pop(s) == IF s = <<>> THEN s ELSE SubSeq(s, 1, Len(s) - 1)

\* GridLayouter::new
GridNew(grid, regions) ==
  LET c == Max(Len(grid.tracks.x), 1)
      len == Len(grid.children)
      given == Len(grid.tracks.y)
      needed == (len \div c) + Min(len % c, 1)
      r == Max(given, needed)
      cols == Pop(Interleave(grid.tracks.x, grid.gutter.x, c))
      rows == Pop(Interleave(grid.tracks.y, grid.gutter.y, r))
      expand == regions.expand
  IN [children |-> grid.children,
      expand |-> expand,
      cols |-> cols,
      rows |-> rows,
      regions |-> [regions EXCEPT !.expand = Size(TRUE, FALSE)],
      rcols |-> [i \in 1..Len(cols) |-> 0],
      full |-> regions.current.y,
      used |-> Size(0, 0),
      fr |-> 0,
      lrows |-> <<>>,
      cts |-> ConstraintsNew(expand),
      finished |-> <<>>,
      panicked |-> FALSE,
      shrink |-> None]

\* A slip in cell: the number of content columns taken as cols.len() / 2.
cell_short(self, x, y) ==
  IF x % 2 = 0 /\ y % 2 = 0
    THEN LET c == Len(self.cols) \div 2
             idx == (y \div 2) * c + (x \div 2)
         IN IF idx < Len(self.children) THEN Some(idx + 1) ELSE None
    ELSE None

\* The two assertions of GridLayouter::cell.
CellAsserts(self, x, y) == x < Len(self.cols) /\ y < Len(self.rows)

\* GridLayouter::cell: the index (1-based) of the child in cell (x, y), None
\* for a gutter cell and for a cell past the last child.
cell(self, x, y) ==
  IF x % 2 = 0 /\ y % 2 = 0
    THEN LET c == 1 + (Len(self.cols) \div 2)
             idx == (y \div 2) * c + (x \div 2)
         IN IF idx < Len(self.children) THEN Some(idx + 1) ELSE None
    ELSE None

\* pos.x before column x: the widths of the columns to its left.
PosX(self, x) == SumSeq(SubSeq(self.rcols, 1, x))

\* GridLayouter::measure_auto_columns, the inner loop over y: the largest
\* frame width of the cells of column x.
RECURSIVE AutoColumnWidth(_, _, _, _)
AutoColumnWidth(self, available, x, y) ==
  IF y >= Len(self.rows) THEN 0
  ELSE LET node == cell(self, x, y)
           pod0 == RegionsOne(Size(available, self.regions.base.y),
                              self.regions.base, Size(FALSE, FALSE))
           pod == IF self.rows[y + 1].t = "linear"
                    THEN [pod0 EXCEPT !.base.y =
                            LinearResolve(self.rows[y + 1], self.regions.base.y)]
                    ELSE pod0
           width == IF node = None THEN 0
                    ELSE NodeLayout(self.children[node[1]], pod)[1].x
       IN Max(width, AutoColumnWidth(self, available, x, y + 1))

\* A slip in measure_auto_columns: the measured widths not summed up.
measure_auto_columns_unsummed(self, available) ==
  LET autos == {i \in 1..Len(self.cols) : self.cols[i].t = "auto"}
      rcols == [i \in 1..Len(self.rcols) |->
                  IF i \in autos THEN AutoColumnWidth(self, available, i - 1, 0)
                  ELSE self.rcols[i]]
  IN [self |-> [self EXCEPT !.rcols = rcols], auto |-> 0, count |-> Cardinality(autos)]

\* GridLayouter::measure_auto_columns: rcols with the Auto columns measured,
\* their sum and their count.
measure_auto_columns(self, available) ==
  LET autos == {i \in 1..Len(self.cols) : self.cols[i].t = "auto"}
      rcols == [i \in 1..Len(self.rcols) |->
                  IF i \in autos THEN AutoColumnWidth(self, available, i - 1, 0)
                  ELSE self.rcols[i]]
  IN [self |-> [self EXCEPT
                  !.rcols = rcols,
                  !.panicked = @ \/ \E i \in autos : \E y \in 0..(Len(self.rows) - 1) :
                                      ~CellAsserts(self, i - 1, y)],
      auto |-> SumSeq([i \in 1..Len(rcols) |-> IF i \in autos THEN rcols[i] ELSE 0]),
      count |-> Cardinality(autos)]

\* A slip in grow_fractional_columns: the remaining space split equally
\* among the fractional columns, whatever their weights.
grow_fractional_columns_equal(self, remaining, fr) ==
  LET frs == {i \in 1..Len(self.cols) : self.cols[i].t = "fr"}
  IN [self EXCEPT !.rcols = [i \in 1..Len(self.rcols) |->
        IF i \in frs THEN remaining \div Cardinality(frs) ELSE self.rcols[i]]]

\* GridLayouter::grow_fractional_columns
grow_fractional_columns(self, remaining, fr) ==
  [self EXCEPT !.rcols = [i \in 1..Len(self.rcols) |->
     IF i <= Len(self.cols) /\ self.cols[i].t = "fr"
       THEN FractionalResolve(self.cols[i].fr, fr, remaining)
       ELSE self.rcols[i]]]

\* A slip in shrink_auto_columns: every overlarge column cut to the fair
\* share, the space the small columns leave free not redistributed.
shrink_auto_columns_fair(self, available, count) ==
  LET autos == {i \in 1..Len(self.cols) : self.cols[i].t = "auto"}
  IN [self EXCEPT !.rcols = [i \in 1..Len(self.rcols) |->
        IF i \in autos /\ self.rcols[i] * count > available
          THEN available \div count ELSE self.rcols[i]]]

\* A slip in shrink_auto_columns: a column counted as overlarge when it is
\* wider than the available width, not than the fair share of it.
shrink_auto_columns_available(self, available, count) ==
  LET autos == {i \in 1..Len(self.cols) : self.cols[i].t = "auto"}
      over == {i \in autos : self.rcols[i] > available}
      overlarge == Cardinality(over)
      redistribute == available
          - SumSeq([i \in 1..Len(self.rcols) |->
                      IF i \in autos \ over THEN self.rcols[i] ELSE 0])
      share == redistribute \div overlarge
  IN [self EXCEPT !.rcols = [i \in 1..Len(self.rcols) |->
                     IF i \in over THEN share ELSE self.rcols[i]],
                  !.shrink = Some([count |-> count, overlarge |-> overlarge])]

\* A slip in shrink_auto_columns: every Auto column set to the share, the
\* ones within the fair share too.
shrink_auto_columns_all(self, available, count) ==
  LET autos == {i \in 1..Len(self.cols) : self.cols[i].t = "auto"}
      over == {i \in autos : self.rcols[i] * count > available}
      overlarge == Cardinality(over)
      redistribute == available
          - SumSeq([i \in 1..Len(self.rcols) |->
                      IF i \in autos \ over THEN self.rcols[i] ELSE 0])
      share == redistribute \div overlarge
  IN [self EXCEPT !.rcols = [i \in 1..Len(self.rcols) |->
                     IF i \in autos THEN share ELSE self.rcols[i]],
                  !.shrink = Some([count |-> count, overlarge |-> overlarge])]

\* GridLayouter::shrink_auto_columns.  `*rcol > fair` with fair = available /
\* count is compared as rcol * count > available.  The two divisors of the
\* call, count and overlarge, are kept in shrink (not in the source).
shrink_auto_columns(self, available, count) ==
  LET autos == {i \in 1..Len(self.cols) : self.cols[i].t = "auto"}
      over == {i \in autos : self.rcols[i] * count > available}
      overlarge == Cardinality(over)
      redistribute == available
          - SumSeq([i \in 1..Len(self.rcols) |->
                      IF i \in autos \ over THEN self.rcols[i] ELSE 0])
      share == redistribute \div overlarge
  IN [self EXCEPT !.rcols = [i \in 1..Len(self.rcols) |->
                     IF i \in over THEN share ELSE self.rcols[i]],
                  !.shrink = Some([count |-> count, overlarge |-> overlarge])]

\* A slip in measure_columns: linear columns resolved against the region's
\* current width instead of its base.
resolve_linear_columns_current(self) ==
  [i \in 1..Len(self.rcols) |->
     IF i <= Len(self.cols) /\ self.cols[i].t = "linear"
       THEN LinearResolve(self.cols[i], self.regions.current.x)
       ELSE self.rcols[i]]

\* GridLayouter::measure_columns, the first loop: rcols with the linear
\* columns resolved.
resolve_linear_columns(self) ==
  [i \in 1..Len(self.rcols) |->
     IF i <= Len(self.cols) /\ self.cols[i].t = "linear"
       THEN LinearResolve(self.cols[i], self.regions.base.x)
       ELSE self.rcols[i]]

\* GridLayouter::measure_columns
measure_columns(self) ==
  LET n == Min(Len(self.cols), Len(self.rcols))
      isLin(k) == self.cols[k].t = "linear"
      rcols1 == resolve_linear_columns(self)
      linear == SumSeq([k \in 1..n |-> IF isLin(k) THEN rcols1[k] ELSE 0])
      fr == SumSeq([k \in 1..n |-> self.cols[k].fr])
      case0 == IF \E k \in 1..n : self.cols[k].t \in {"auto", "fr"}
                 THEN "Fitting" ELSE "PurelyLinear"
      s1 == [self EXCEPT !.rcols = rcols1]
      available == self.regions.current.x - linear
      m == measure_auto_columns(s1, available)
      remaining == available - m.auto
      s2 == IF available >= 0
              THEN IF remaining >= 0
                     THEN IF fr # 0
                            THEN grow_fractional_columns(m.self, remaining, fr)
                            ELSE m.self
                     ELSE shrink_auto_columns(m.self, available, m.count)
              ELSE s1
      case == IF available >= 0
                THEN IF remaining >= 0
                       THEN IF fr # 0 THEN "Exact" ELSE case0
                       ELSE "Exact"
                ELSE IF case0 = "Fitting" THEN "Overflowing" ELSE case0
      base == Size(Some(self.regions.base.x), Some(self.regions.base.y))
      cts0 == [s2.cts EXCEPT !.base = base]
      cts == CASE case = "PurelyLinear" -> cts0
               [] case = "Fitting" -> [cts0 EXCEPT !.min.x = Some(s2.used.x)]
               [] case = "Exact" -> [cts0 EXCEPT !.exact.x = Some(self.regions.current.x)]
               [] case = "Overflowing" -> [cts0 EXCEPT !.max.x = Some(linear)]
  IN [s2 EXCEPT !.cts = cts, !.used.x = SumSeq(s2.rcols)]

\* A row frame: Frame plus the index y of the track it was laid out for and
\* whether a cell lookup made for it failed an assertion (not in the source).
RowFrame(size, items, y, panic) ==
  [size |-> size, items |-> items, y |-> y, panic |-> panic]

\* A slip in layout: the fractional row recorded with the index of the row
\* after it.
RowOfFr_next(v, y) ==
  [kind |-> "fr", frame |-> RowFrame(Size(0, 0), <<>>, y + 1, FALSE), v |-> v, y |-> y + 1]

\* Row::Frame(frame) and Row::Fr(v, y)
RowOfFrame(frame) == [kind |-> "frame", frame |-> frame, v |-> 0, y |-> frame.y]
RowOfFr(v, y) ==
  [kind |-> "fr", frame |-> RowFrame(Size(0, 0), <<>>, y, FALSE), v |-> v, y |-> y]

\* GridLayouter::layout_single_row, the loop from column x on.
RECURSIVE SingleRowItems(_, _, _, _)
SingleRowItems(self, height, y, x) ==
  IF x >= Len(self.rcols) THEN <<>>
  ELSE LET node == cell(self, x, y)
           rcol == self.rcols[x + 1]
           size == Size(rcol, height)
           base == Size(IF self.cols[x + 1].t = "auto" THEN self.regions.base.x ELSE size.x,
                        IF self.rows[y + 1].t = "auto" THEN self.regions.base.y ELSE size.y)
           pod == RegionsOne(size, base, Size(TRUE, TRUE))
           here == IF node = None \/ ~CellAsserts(self, x, y) THEN <<>>
                   ELSE << Item(PosX(self, x), 0, node[1],
                                NodeLayout(self.children[node[1]], pod)[1]) >>
       IN here \o SingleRowItems(self, height, y, x + 1)

\* GridLayouter::layout_single_row
layout_single_row(self, height, y) ==
  RowFrame(Size(self.used.x, height),
           SingleRowItems(self, height, y, 0),
           y,
           \E x \in 0..(Len(self.rcols) - 1) : ~CellAsserts(self, x, y))

\* GridLayouter::layout_multi_row: the items of output frame i (1-based),
\* from column x on.
RECURSIVE MultiRowItems(_, _, _, _, _)
MultiRowItems(self, heights, y, i, x) ==
  IF x >= Len(self.rcols) THEN <<>>
  ELSE LET node == cell(self, x, y)
           rcol == self.rcols[x + 1]
           pod0 == [RegionsOne(Size(self.used.x, heights[1]), self.regions.base,
                               Size(TRUE, TRUE))
                      EXCEPT !.backlog = [k \in 1..(Len(heights) - 1) |->
                                            Size(self.used.x, heights[k + 1])]]
           pod1 == SetWidth(pod0, rcol)
           pod == IF self.cols[x + 1].t = "auto"
                    THEN [pod1 EXCEPT !.base.x = self.regions.base.x] ELSE pod1
           frames == IF node = None \/ ~CellAsserts(self, x, y) THEN <<>>
                     ELSE NodeLayout(self.children[node[1]], pod)
           here == IF i <= Len(frames)
                     THEN << Item(PosX(self, x), 0, node[1], frames[i]) >> ELSE <<>>
       IN here \o MultiRowItems(self, heights, y, i, x + 1)

\* GridLayouter::layout_multi_row
layout_multi_row(self, heights, y) ==
  [i \in 1..Len(heights) |->
     RowFrame(Size(self.used.x, heights[i]),
              MultiRowItems(self, heights, y, i, 0),
              y,
              \E x \in 0..(Len(self.rcols) - 1) : ~CellAsserts(self, x, y))]

\* A slip in push_row: the row put in front of the rows of the region.
push_row_front(self, frame) ==
  [self EXCEPT !.regions.current.y = LSub(@, frame.size.y),
               !.used.y = @ + frame.size.y,
               !.lrows = <<RowOfFrame(frame)>> \o @,
               !.panicked = @ \/ frame.panic]

\* GridLayouter::push_row
push_row(self, frame) ==
  [self EXCEPT !.regions.current.y = LSub(@, frame.size.y),
               !.used.y = @ + frame.size.y,
               !.lrows = Append(@, RowOfFrame(frame)),
               !.panicked = @ \/ frame.panic]

\* A slip in finish_region: a fractional row given its share of the full
\* height, not of what the other rows leave.
RECURSIVE PlaceRows_full(_, _, _)
PlaceRows_full(self, k, posy) ==
  IF k > Len(self.lrows) THEN <<>>
  ELSE LET row == self.lrows[k]
           frame == IF row.kind = "frame" THEN row.frame
                    ELSE layout_single_row(
                           self, FractionalResolve(row.v, self.fr, self.full), row.y)
       IN << [pos |-> posy, frame |-> frame] >>
            \o PlaceRows_full(self, k + 1, posy + frame.size.y)

\* GridLayouter::finish_region, the loop over the rows from row k on: the
\* row frames with the y offset each is merged at.
RECURSIVE PlaceRows(_, _, _)
PlaceRows(self, k, posy) ==
  IF k > Len(self.lrows) THEN <<>>
  ELSE LET row == self.lrows[k]
           remaining == LSub(self.full, self.used.y)
           frame == IF row.kind = "frame" THEN row.frame
                    ELSE layout_single_row(
                           self, FractionalResolve(row.v, self.fr, remaining), row.y)
       IN << [pos |-> posy, frame |-> frame] >>
            \o PlaceRows(self, k + 1, posy + frame.size.y)

\* Frame::merge_frame of every placed row: the items of the rows, moved down
\* by the row's offset.
RECURSIVE MergeRows(_)
MergeRows(placed) ==
  IF placed = <<>> THEN <<>>
  ELSE LET p == Head(placed)
       IN [j \in 1..Len(p.frame.items) |->
             [p.frame.items[j] EXCEPT !.pos.y = @ + p.pos]]
          \o MergeRows(Tail(placed))

\* A slip in finish_region: the sum of fractional ratios not set back to
\* zero for the next region.
finish_region_leak(self) ==
  LET exact == self.fr > 0 /\ is_finite(self.full)
      size == Size(self.used.x, IF exact THEN self.full ELSE self.used.y)
      cts1 == IF exact THEN [self.cts EXCEPT !.exact.y = Some(self.full)]
              ELSE [self.cts EXCEPT !.min.y = Some(Min(self.used.y, self.full))]
      placed == PlaceRows(self, 1, 0)
      cts == [cts1 EXCEPT !.base = Size(Some(self.regions.base.x),
                                         Some(self.regions.base.y))]
      output == [size |-> size,
                 items |-> MergeRows(placed),
                 rows |-> [k \in 1..Len(placed) |->
                             [y |-> placed[k].frame.y, pos |-> placed[k].pos,
                              height |-> placed[k].frame.size.y,
                              kind |-> self.lrows[k].kind]],
                 region |-> [full |-> self.full, used |-> self.used.y, fr |-> self.fr,
                             last |-> in_last(self.regions)]]
      regions == next(self.regions)
  IN [self EXCEPT !.lrows = <<>>,
                  !.finished = Append(@, [item |-> output, cts |-> cts]),
                  !.regions = regions,
                  !.full = regions.current.y,
                  !.used.y = 0,
                  !.cts = ConstraintsNew(self.expand),
                  !.panicked = @ \/ \E k \in 1..Len(placed) : placed[k].frame.panic]

\* GridLayouter::finish_region.  A finished entry is the constrained frame;
\* its rows (the track index, offset and height of each row merged into it)
\* and region (the accumulators at finalization) are not in the source.
finish_region(self) ==
  LET exact == self.fr > 0 /\ is_finite(self.full)
      size == Size(self.used.x, IF exact THEN self.full ELSE self.used.y)
      cts1 == IF exact THEN [self.cts EXCEPT !.exact.y = Some(self.full)]
              ELSE [self.cts EXCEPT !.min.y = Some(Min(self.used.y, self.full))]
      placed == PlaceRows(self, 1, 0)
      cts == [cts1 EXCEPT !.base = Size(Some(self.regions.base.x),
                                         Some(self.regions.base.y))]
      output == [size |-> size,
                 items |-> MergeRows(placed),
                 rows |-> [k \in 1..Len(placed) |->
                             [y |-> placed[k].frame.y, pos |-> placed[k].pos,
                              height |-> placed[k].frame.size.y,
                              kind |-> self.lrows[k].kind]],
                 region |-> [full |-> self.full, used |-> self.used.y, fr |-> self.fr,
                             last |-> in_last(self.regions)]]
      regions == next(self.regions)
  IN [self EXCEPT !.lrows = <<>>,
                  !.finished = Append(@, [item |-> output, cts |-> cts]),
                  !.regions = regions,
                  !.full = regions.current.y,
                  !.used.y = 0,
                  !.fr = 0,
                  !.cts = ConstraintsNew(self.expand),
                  !.panicked = @ \/ \E k \in 1..Len(placed) : placed[k].frame.panic]

\* Regions::iter: the height of the i-th region from the current one on
\* (i = 1 is the current region), None past the end of a finite sequence.
RegionIterY(r, i) ==
  IF i = 1 THEN Some(r.current.y)
  ELSE IF i - 1 <= Len(r.backlog) THEN Some(r.backlog[i - 1].y)
  ELSE IF r.last # None THEN Some(r.last[1].y)
  ELSE None

\* GridLayouter::layout_auto_row, the measuring loop from column x on: per
\* region the largest height a cell of the row needs.
RECURSIVE AutoRowHeights(_, _, _, _)
AutoRowHeights(self, y, x, resolved) ==
  IF x >= Len(self.rcols) THEN resolved
  ELSE LET node == cell(self, x, y)
           pod0 == SetWidth(self.regions, self.rcols[x + 1])
           pod == IF self.cols[x + 1].t = "auto"
                    THEN [pod0 EXCEPT !.base.x = self.regions.base.x] ELSE pod0
           frames == NodeLayout(self.children[node[1]], pod)
           merged == [i \in 1..Max(Len(resolved), Len(frames)) |->
                        IF i <= Len(resolved) /\ i <= Len(frames)
                          THEN Max(resolved[i], frames[i].y)
                        ELSE IF i <= Len(resolved) THEN resolved[i]
                        ELSE frames[i].y]
       IN AutoRowHeights(self, y, x + 1,
            IF node = None \/ ~CellAsserts(self, x, y) THEN resolved ELSE merged)

\* GridLayouter::layout_auto_row, the loop pushing the frames from frame i on.
RECURSIVE PushMultiRow(_, _, _)
PushMultiRow(self, frames, i) ==
  IF i > Len(frames) THEN self
  ELSE LET s1 == push_row(self, frames[i])
           s2 == IF i < Len(frames)
                   THEN finish_region([s1 EXCEPT !.cts.exact.y = Some(s1.full)])
                   ELSE s1
       IN PushMultiRow(s2, frames, i + 1)

\* A slip in layout_auto_row: the heights not expanded to the regions.
layout_auto_row_unraised(self, y) ==
  LET measured == AutoRowHeights(self, y, 0, <<>>)
      len == Len(measured)
      s0 == [self EXCEPT !.panicked = @ \/ \E x \in 0..(Len(self.rcols) - 1) :
                                              ~CellAsserts(self, x, y)]
  IN IF len = 0 THEN s0
     ELSE IF len = 1 THEN push_row(s0, layout_single_row(s0, measured[1], y))
     ELSE PushMultiRow(s0, layout_multi_row(s0, measured, y), 1)

\* GridLayouter::layout_auto_row
layout_auto_row(self, y) ==
  LET measured == AutoRowHeights(self, y, 0, <<>>)
      len == Len(measured)
      resolved == IF self.fr = 0
                    THEN [i \in 1..len |->
                            IF i < len /\ RegionIterY(self.regions, i) # None
                              THEN Max(measured[i], RegionIterY(self.regions, i)[1])
                              ELSE measured[i]]
                    ELSE measured
      s0 == [self EXCEPT !.panicked = @ \/ \E x \in 0..(Len(self.rcols) - 1) :
                                              ~CellAsserts(self, x, y)]
  IN IF len = 0 THEN s0
     ELSE IF len = 1 THEN push_row(s0, layout_single_row(s0, measured[1], y))
     ELSE PushMultiRow(s0, layout_multi_row(s0, resolved, y), 1)

\* A slip in layout_linear_row: at most one region skipped, for content rows
\* as for gutter rows, and the row pushed into the next one.
SkipAndPush_once(self, frame, y) ==
  IF ~fits(self.regions.current.y, frame.size.y) /\ ~in_last(self.regions)
    THEN LET s1 == finish_region(
                     [self EXCEPT !.cts.max.y = Some(self.used.y + frame.size.y)])
         IN IF y % 2 = 1 THEN s1 ELSE push_row(s1, frame)
    ELSE push_row(self, frame)

\* A slip in layout_linear_row: no early return for gutter rows, a gutter row
\* pushed into the region after the one it did not fit.
SkipAndPush_gutter(self, frame, y) ==
  IF ~fits(self.regions.current.y, frame.size.y) /\ ~in_last(self.regions)
    THEN push_row(finish_region(
                    [self EXCEPT !.cts.max.y = Some(self.used.y + frame.size.y)]),
                  frame)
    ELSE push_row(self, frame)

\* GridLayouter::layout_linear_row, the loop skipping to a fitting region.
RECURSIVE SkipAndPush(_, _, _)
SkipAndPush(self, frame, y) ==
  IF ~fits(self.regions.current.y, frame.size.y) /\ ~in_last(self.regions)
    THEN LET s1 == finish_region(
                     [self EXCEPT !.cts.max.y = Some(self.used.y + frame.size.y)])
         IN IF y % 2 = 1 THEN s1 ELSE SkipAndPush(s1, frame, y)
    ELSE push_row(self, frame)

\* GridLayouter::layout_linear_row
layout_linear_row(self, v, y) ==
  LET resolved == LinearResolve(v, self.regions.base.y)
      frame == layout_single_row(self, resolved, y)
  IN SkipAndPush(self, frame, y)

\* A slip in layout: the check for a full region made before every row,
\* gutter rows too.
layout_row_anyrow(self, y) ==
  LET s0 == IF is_full(self.regions) THEN finish_region(self) ELSE self
      row == s0.rows[y + 1]
  IN CASE row.t = "auto" -> layout_auto_row(s0, y)
       [] row.t = "linear" -> layout_linear_row(s0, row, y)
       [] row.t = "fr" ->
            [s0 EXCEPT !.cts.exact.y = Some(s0.full),
                       !.lrows = Append(@, RowOfFr(row.fr, y)),
                       !.fr = @ + row.fr]

\* A slip in layout: the weight of a fractional row not added to fr.
layout_row_unweighted(self, y) ==
  LET s0 == IF y % 2 = 0 /\ is_full(self.regions) THEN finish_region(self) ELSE self
      row == s0.rows[y + 1]
  IN CASE row.t = "auto" -> layout_auto_row(s0, y)
       [] row.t = "linear" -> layout_linear_row(s0, row, y)
       [] row.t = "fr" ->
            [s0 EXCEPT !.cts.exact.y = Some(s0.full),
                       !.lrows = Append(@, RowOfFr(row.fr, y))]

\* GridLayouter::layout, one iteration of the loop over the rows.
layout_row(self, y) ==
  LET s0 == IF y % 2 = 0 /\ is_full(self.regions) THEN finish_region(self) ELSE self
      row == s0.rows[y + 1]
  IN CASE row.t = "auto" -> layout_auto_row(s0, y)
       [] row.t = "linear" -> layout_linear_row(s0, row, y)
       [] row.t = "fr" ->
            [s0 EXCEPT !.cts.exact.y = Some(s0.full),
                       !.lrows = Append(@, RowOfFr(row.fr, y)),
                       !.fr = @ + row.fr]

\* ================================================================ flow
\* Align: the vertical alignments, in the order of the enum.
AlignRank(a) == CASE a = "top" -> 1 [] a = "horizon" -> 3 [] a = "bottom" -> 5
AlignMax(a, b) == IF AlignRank(a) >= AlignRank(b) THEN a ELSE b

\* Align::resolve(length): the offset of the aligned item in the free length.
AlignResolve(a, length) ==
  CASE a = "top" -> 0 [] a = "horizon" -> length \div 2 [] a = "bottom" -> length

\* FlowChild::Spacing(Spacing::Linear | Spacing::Fractional), FlowChild::Node
NoNode ==
  [w |-> 0, h |-> 0, brk |-> FALSE, align |-> "top", placed |-> FALSE, line |-> 0]
SpacingChild(v) == [kind |-> "spacing", v |-> v, node |-> NoNode]
NodeChild(n) == [kind |-> "node", v |-> Auto, node |-> n]

\* FlowItem::Absolute | Fractional | Frame(frame, aligns) | Placed(frame); a
\* frame is known by its size and the child (index) it is the layout of.
FlowItem(kind, v, size, child, align) ==
  [kind |-> kind, v |-> v, size |-> size, child |-> child, align |-> align]

\* A slip in new: the full size taken from the base of the regions.
FlowNew_base(flow, rs) ==
  [children |-> flow.children,
   expand |-> rs.expand,
   regions |-> [rs EXCEPT !.expand.y = FALSE],
   full |-> rs.base,
   used |-> Size(0, 0),
   fr |-> 0,
   items |-> <<>>,
   finished |-> <<>>]

\* FlowLayouter::new
FlowNew(flow, rs) ==
  [children |-> flow.children,
   expand |-> rs.expand,
   regions |-> [rs EXCEPT !.expand.y = FALSE],
   full |-> rs.current,
   used |-> Size(0, 0),
   fr |-> 0,
   items |-> <<>>,
   finished |-> <<>>]

\* A slip in finish_region: every frame placed by its own alignment, not by
\* the ruler.
RECURSIVE PlaceItems_own(_, _, _, _, _, _)
PlaceItems_own(self, size, remaining, k, offset, ruler) ==
  IF k > Len(self.items) THEN <<>>
  ELSE LET item == self.items[k]
       IN CASE item.kind = "absolute" ->
                 PlaceItems_own(self, size, remaining, k + 1, offset + item.v, ruler)
            [] item.kind = "fractional" ->
                 PlaceItems_own(self, size, remaining, k + 1,
                                offset + FractionalResolve(item.v, self.fr, remaining), ruler)
            [] item.kind = "frame" ->
                 << Item(0, offset + AlignResolve(item.align, size.y - self.used.y),
                         item.child, item.size) >>
                   \o PlaceItems_own(self, size, remaining, k + 1, offset + item.size.y, ruler)
            [] item.kind = "placed" ->
                 << Item(0, offset, item.child, item.size) >>
                   \o PlaceItems_own(self, size, remaining, k + 1, offset, ruler)

\* FlowLayouter::finish_region, the loop placing the items from item k on:
\* the frames pushed into the output with their positions.
RECURSIVE PlaceItems(_, _, _, _, _, _)
PlaceItems(self, size, remaining, k, offset, ruler) ==
  IF k > Len(self.items) THEN <<>>
  ELSE LET item == self.items[k]
           r == IF item.kind = "frame" THEN AlignMax(ruler, item.align) ELSE ruler
       IN CASE item.kind = "absolute" ->
                 PlaceItems(self, size, remaining, k + 1, offset + item.v, r)
            [] item.kind = "fractional" ->
                 PlaceItems(self, size, remaining, k + 1,
                            offset + FractionalResolve(item.v, self.fr, remaining), r)
            [] item.kind = "frame" ->
                 << Item(0, offset + AlignResolve(r, size.y - self.used.y), item.child, item.size) >>
                   \o PlaceItems(self, size, remaining, k + 1, offset + item.size.y, r)
            [] item.kind = "placed" ->
                 << Item(0, offset, item.child, item.size) >>
                   \o PlaceItems(self, size, remaining, k + 1, offset, r)

\* FlowLayouter::finish_region, the same loop from item k on: for every item
\* the running offset and the ruler it is placed with, and how far it
\* advances the offset (not in the source: the loop's variables, recorded).
RECURSIVE ItemOffsets(_, _, _, _, _)
ItemOffsets(self, remaining, k, offset, ruler) ==
  IF k > Len(self.items) THEN <<>>
  ELSE LET item == self.items[k]
           r == IF item.kind = "frame" THEN AlignMax(ruler, item.align) ELSE ruler
           advance == CASE item.kind = "absolute" -> item.v
                        [] item.kind = "fractional" ->
                             FractionalResolve(item.v, self.fr, remaining)
                        [] item.kind = "frame" -> item.size.y
                        [] item.kind = "placed" -> 0
       IN << [kind |-> item.kind, v |-> item.v, child |-> item.child,
              align |-> item.align, height |-> item.size.y,
              offset |-> offset, ruler |-> r, advance |-> advance] >>
            \o ItemOffsets(self, remaining, k + 1, offset + advance, r)

\* A slip in finish_region: the remaining space taken after the used height
\* was raised to the full height.
flow_finish_region_late(self) ==
  LET fill == self.fr > 0 /\ is_finite(self.full.y)
      size == Size(IF self.expand.x THEN self.full.x ELSE self.used.x,
                   IF fill \/ self.expand.y THEN self.full.y ELSE self.used.y)
      s1 == IF fill THEN [self EXCEPT !.used.y = self.full.y] ELSE self
      remaining == LSub(s1.full.y, s1.used.y)
      output == [size |-> size,
                 items |-> PlaceItems(s1, size, remaining, 1, 0, "top"),
                 marks |-> ItemOffsets(s1, remaining, 1, 0, "top"),
                 region |-> [full |-> self.full, used |-> self.used, fr |-> self.fr,
                             last |-> in_last(self.regions)]]
      cts == [ConstraintsNew(self.expand) EXCEPT
                !.exact = Size(Some(self.full.x), Some(self.full.y)),
                !.base = Size(Some(self.regions.base.x), Some(self.regions.base.y))]
      rs == next(self.regions)
  IN [self EXCEPT !.items = <<>>,
                  !.regions = rs,
                  !.full = rs.current,
                  !.used = Size(0, 0),
                  !.fr = 0,
                  !.finished = Append(@, [item |-> output, cts |-> cts])]

\* FlowLayouter::finish_region.  A finished entry is the constrained frame;
\* its marks (the loop's variables at every item) and region (the
\* accumulators at finalization) are not in the source.
flow_finish_region(self) ==
  LET fill == self.fr > 0 /\ is_finite(self.full.y)
      size == Size(IF self.expand.x THEN self.full.x ELSE self.used.x,
                   IF fill \/ self.expand.y THEN self.full.y ELSE self.used.y)
      remaining == LSub(self.full.y, self.used.y)
      s1 == IF fill THEN [self EXCEPT !.used.y = self.full.y] ELSE self
      output == [size |-> size,
                 items |-> PlaceItems(s1, size, remaining, 1, 0, "top"),
                 marks |-> ItemOffsets(s1, remaining, 1, 0, "top"),
                 region |-> [full |-> self.full, used |-> self.used, fr |-> self.fr,
                             last |-> in_last(self.regions)]]
      cts == [ConstraintsNew(self.expand) EXCEPT
                !.exact = Size(Some(self.full.x), Some(self.full.y)),
                !.base = Size(Some(self.regions.base.x), Some(self.regions.base.y))]
      rs == next(self.regions)
  IN [self EXCEPT !.items = <<>>,
                  !.regions = rs,
                  !.full = rs.current,
                  !.used = Size(0, 0),
                  !.fr = 0,
                  !.finished = Append(@, [item |-> output, cts |-> cts])]

\* A layout_absolute that shrinks the region but saves no item for the
\* spacing, so that finish_region does not advance the offset by it.
layout_absolute_unsaved(self, amount) ==
  LET resolved == LinearResolve(amount, self.full.y)
      limited == Min(resolved, self.regions.current.y)
  IN [self EXCEPT !.regions.current.y = LSub(@, limited),
                  !.used.y = @ + limited]

\* FlowLayouter::layout_absolute
layout_absolute(self, amount) ==
  LET resolved == LinearResolve(amount, self.full.y)
      limited == Min(resolved, self.regions.current.y)
  IN [self EXCEPT !.regions.current.y = LSub(@, limited),
                  !.used.y = @ + limited,
                  !.items = Append(@, FlowItem("absolute", resolved, Size(0, 0), 0, "top"))]

\* A slip in layout_node: the region not finished between the frames of a
\* node.
RECURSIVE PushFrames_unbroken(_, _, _, _, _)
PushFrames_unbroken(self, frames, k, child, align) ==
  IF k > Len(frames) THEN self
  ELSE LET size == frames[k]
           s1 == [self EXCEPT !.used.y = @ + size.y,
                              !.used.x = Max(@, size.x),
                              !.regions.current.y = LSub(@, size.y),
                              !.items = Append(@, FlowItem("frame", 0, size, child, align))]
       IN PushFrames_unbroken(s1, frames, k + 1, child, align)

\* FlowLayouter::layout_node, the loop over the frames from frame k on.
RECURSIVE PushFrames(_, _, _, _, _)
PushFrames(self, frames, k, child, align) ==
  IF k > Len(frames) THEN self
  ELSE LET size == frames[k]
           s1 == [self EXCEPT !.used.y = @ + size.y,
                              !.used.x = Max(@, size.x),
                              !.regions.current.y = LSub(@, size.y),
                              !.items = Append(@, FlowItem("frame", 0, size, child, align))]
           s2 == IF k < Len(frames) THEN flow_finish_region(s1) ELSE s1
       IN PushFrames(s2, frames, k + 1, child, align)

\* A slip in layout_node: a placed node that is out of flow treated as any
\* other node.
layout_node_inflow(self, child) ==
  LET n == self.children[child].node
      frames == NodeLayout(n, self.regions)
  IN PushFrames(self, frames, 1, child, n.align)

\* FlowLayouter::layout_node; child is the index of the node among the
\* children.
layout_node(self, child) ==
  LET n == self.children[child].node
      frames == NodeLayout(n, self.regions)
  IN IF n.placed
       THEN [self EXCEPT !.items = Append(@, FlowItem("placed", 0, frames[1], child, "top"))]
       ELSE PushFrames(self, frames, 1, child, n.align)

\* A slip in layout: a node laid out without the check for a full region.
layout_child_unchecked(self, child) ==
  LET c == self.children[child]
  IN CASE c.kind = "spacing" /\ c.v.t = "linear" -> layout_absolute(self, c.v)
       [] c.kind = "spacing" /\ c.v.t = "fr" ->
            [self EXCEPT !.items = Append(@, FlowItem("fractional", c.v.fr, Size(0, 0), 0, "top")),
                         !.fr = @ + c.v.fr]
       [] c.kind = "node" -> layout_node(self, child)

\* FlowLayouter::layout, one iteration of the loop over the children.
layout_child(self, child) ==
  LET c == self.children[child]
  IN CASE c.kind = "spacing" /\ c.v.t = "linear" -> layout_absolute(self, c.v)
       [] c.kind = "spacing" /\ c.v.t = "fr" ->
            [self EXCEPT !.items = Append(@, FlowItem("fractional", c.v.fr, Size(0, 0), 0, "top")),
                         !.fr = @ + c.v.fr]
       [] c.kind = "node" ->
            layout_node(IF is_full(self.regions) THEN flow_finish_region(self) ELSE self,
                        child)

\* FlowNode::layout: the frames FlowLayouter::new(..).layout(ctx) returns.
RECURSIVE FlowLayoutFrom(_, _)
FlowLayoutFrom(self, k) ==
  IF k > Len(self.children) THEN flow_finish_region(self).finished
  ELSE FlowLayoutFrom(layout_child(self, k), k + 1)

FlowLayout(flow, rs) == FlowLayoutFrom(FlowNew(flow, rs), 1)

\* ------------------------------------------------------------- inputs
\* Sequences over S of length lo..hi.
SeqsOf(S, lo, hi) == UNION {[1..n -> S] : n \in lo..hi}

\* A node: natural size, breakable or rigid, the vertical alignment an
\* AlignNode asks for, and whether it is a PlacedNode that is out of flow.
Node(w, h, brk, align, placed) ==
  [w |-> w, h |-> h, brk |-> brk, align |-> align, placed |-> placed, line |-> 0]
\* A paragraph: a breakable node of lines, each line high.
Lines(w, h, line) == [Node(w, h, TRUE, "top", FALSE) EXCEPT !.line = line]

\* Grid row layout: few column setups, many row setups.
GridChildren ==
  {Node(Pt(1), Pt(1), FALSE, "top", FALSE), Node(Pt(3), Pt(5), TRUE, "top", FALSE)}
RowTracks == {Auto, Linear(Pt(3), 0), Linear(0, 1), Fractional(1)}
RowSetups == SeqsOf(RowTracks, 0, MaxRows) \cup {<<Auto, Fractional(1), Auto>>}
RowGutters == {<<>>, <<Linear(Pt(2), 0)>>}
ColSetups == {<<>>, <<Linear(Pt(2), 0), Auto>>}
GridChildLists ==
  SeqsOf(GridChildren, 0, MaxChildren)
    \cup {[k \in 1..3 |-> Node(Pt(1), Pt(1), FALSE, "top", FALSE)]}
    \cup {<<Lines(Pt(3), Pt(8), Pt(4))>>}
BacklogSizes == {Size(Pt(4), Pt(3)), Size(Pt(4), Pt(6))}
RegionSetups ==
  {[current |-> Size(Pt(4), cy), base |-> Size(Pt(4), Pt(8)), backlog |-> b, last |-> l,
    expand |-> Size(FALSE, FALSE)] :
     cy \in {Pt(6), Inf},
     b \in SeqsOf(BacklogSizes, 0, MaxBacklog),
     l \in {None, Some(Size(Pt(4), Pt(6)))}}

\* Column measurement: many column setups, one row of children, one region.
ColTracks == {Auto, Linear(Pt(2), 0), Linear(0, 1), Fractional(1), Fractional(2)}
ColGutters == {<<>>, <<Linear(Pt(1), 0)>>}
ColChildren ==
  {Node(Pt(1), Pt(1), FALSE, "top", FALSE), Node(Pt(3), Pt(1), FALSE, "top", FALSE)}
\* The children of the grid: up to MaxChildren of them, and every row of
\* three, one for each of three content columns.
ColChildLists == SeqsOf(ColChildren, 0, MaxChildren) \cup SeqsOf(ColChildren, 3, 3)
ColRegions ==
  {RegionsOne(Size(cx, Pt(6)), Size(bx, Pt(6)), Size(FALSE, FALSE)) :
     cx \in {Pt(2), Pt(6)}, bx \in {Pt(6), Pt(8)}}

\* Inputs of the shrinking of Auto columns: children 1pt, 3pt and 5pt wide
\* in rows of three, regions 4pt, 6pt and 8pt wide.
ShrinkChildLists ==
  SeqsOf({Node(Pt(1), Pt(1), FALSE, "top", FALSE), Node(Pt(3), Pt(1), FALSE, "top", FALSE),
          Node(Pt(5), Pt(1), FALSE, "top", FALSE)}, 3, 3)
ShrinkRegions ==
  {RegionsOne(Size(cx, Pt(6)), Size(cx, Pt(6)), Size(FALSE, FALSE)) :
     cx \in {Pt(4), Pt(6), Pt(8)}}

\* Flow layout.
FlowNode(children) == [children |-> children]
FlowChildren ==
  {SpacingChild(Linear(Pt(1), 0)), SpacingChild(Linear(0, 1)), SpacingChild(Fractional(1)),
   NodeChild(Node(Pt(1), Pt(2), FALSE, "top", FALSE)),
   NodeChild(Node(Pt(3), Pt(5), TRUE, "top", FALSE)),
   NodeChild(Node(Pt(1), Pt(2), FALSE, "bottom", FALSE)),
   NodeChild(Node(Pt(1), Pt(1), FALSE, "top", TRUE))}
\* The breakable node, 5pt high, begun in a region of 1pt, ends flush with a
\* following region of 4pt and inside one of 6pt.
FlowBacklogSizes == {Size(Pt(4), Pt(4)), Size(Pt(4), Pt(6))}
\* A relative spacing in a region of infinite height is infinite: left out.
FlowRegions ==
  {[current |-> Size(Pt(4), cy), base |-> Size(Pt(5), Pt(12)), backlog |-> b, last |-> l,
    expand |-> Size(FALSE, ey)] :
     cy \in {Pt(1), Pt(10), Inf}, ey \in BOOLEAN,
     b \in SeqsOf(FlowBacklogSizes, 0, MaxBacklog),
     l \in {None, Some(Size(Pt(4), Pt(6)))}}

\* ======================================================= file embedding
\* EmbedElem: the fields write_embedded_files reads, and the span of the
\* element in the document.
EmbedElem(name, resolved_path, span) ==
  [name |-> name, resolved_path |-> resolved_path, span |-> span]

\* WithGlobalRefs: the embed elements the introspector finds, in document
\* order, and options.standards.embedded_files.
WithGlobalRefs(elements, embedded_files) ==
  [elements |-> elements, standards |-> [embedded_files |-> embedded_files]]
NoExport == WithGlobalRefs(<<>>, FALSE)

\* PdfChunk::new: the reference allocator and what was written.
PdfChunkNew == [alloc |-> 1, streams |-> <<>>, specs |-> <<>>]

\* A slip in embed_file: the file specification is not written.
embed_file_unspecified(chunk, embed) ==
  [chunk |-> [chunk EXCEPT !.alloc = @ + 2,
                           !.streams = Append(@, [ref |-> chunk.alloc,
                                                  of |-> embed.span])],
   ref |-> chunk.alloc + 1]

\* embed_file: two references allocated, the embedded file stream and the
\* file specification written; the reference of the file specification.
embed_file(chunk, embed) ==
  LET embedded_file_stream_ref == chunk.alloc
      file_spec_dict_ref == chunk.alloc + 1
  IN [chunk |-> [chunk EXCEPT
                   !.alloc = @ + 2,
                   !.streams = Append(@, [ref |-> embedded_file_stream_ref,
                                          of |-> embed.span]),
                   !.specs = Append(@, [ref |-> file_spec_dict_ref,
                                        path |-> embed.resolved_path,
                                        ef |-> embedded_file_stream_ref])],
      ref |-> file_spec_dict_ref]

\* write_embedded_files, the loop over the elements from element k on.
RECURSIVE EmbedFrom(_, _, _, _)
EmbedFrom(elements, k, chunk, embedded_files) ==
  IF k > Len(elements) THEN [chunk |-> chunk, embedded_files |-> embedded_files]
  ELSE LET embed == elements[k]
           name == IF embed.name # None THEN embed.name[1] ELSE embed.resolved_path
           w == embed_file(chunk, embed)
       IN EmbedFrom(elements, k + 1, w.chunk, (name :> w.ref) @@ embedded_files)

\* write_embedded_files: Err(span, message) or Ok((chunk, embedded_files)).
write_embedded_files(c) ==
  IF ~c.standards.embedded_files /\ c.elements # <<>>
    THEN [ok |-> FALSE, span |-> c.elements[1].span,
          message |-> "file embeddings are currently only supported for PDF/A-3"]
    ELSE LET w == EmbedFrom(c.elements, 1, PdfChunkNew, <<>>)
         IN [ok |-> TRUE, chunk |-> w.chunk, embedded_files |-> w.embedded_files]

\* -------------------------------------------------------- state machine
VARIABLES
  node,      \* the GridNode or FlowNode laid out
  regions,   \* the regions handed to its layout
  pc,        \* where the layout call is: "measure", "rows", "flow", "done"
  y,         \* the row index of GridLayouter::layout's loop
  i,         \* the number of children FlowLayouter::layout's loop has taken
  g,         \* the GridLayouter
  f,         \* the FlowLayouter
  pending,   \* layout_linear_row's frame while its loop skips regions
  ctx,       \* the document and options of a PDF export
  res        \* what write_embedded_files returned

vars == <<node, regions, pc, y, i, g, f, pending, ctx, res>>

\* No frame is waiting for a region.
NoFrame == RowFrame(Size(0, 0), <<>>, 0, FALSE)

\* The layouter that is not running.
Idle == [finished |-> <<>>]

\* GridNode::layout up to GridLayouter::new, for the inputs of row layout.
InitGrid ==
  /\ node \in {GridNode(tx, ty, <<>>, gy, ch) :
                 tx \in ColSetups, ty \in RowSetups,
                 gy \in RowGutters, ch \in GridChildLists}
  /\ regions \in RegionSetups
  /\ pc = "measure"
  /\ y = 0
  /\ i = 0
  /\ g = GridNew(node, regions)
  /\ f = Idle
  /\ pending = NoFrame
  /\ ctx = NoExport
  /\ res = None

\* GridNode::layout up to GridLayouter::new, for the inputs of column
\* measurement.
InitCols ==
  /\ node \in {GridNode(tx, <<>>, gx, <<>>, ch) :
                 tx \in SeqsOf(ColTracks, 0, MaxCols),
                 gx \in ColGutters, ch \in ColChildLists}
  /\ regions \in ColRegions
  /\ pc = "measure"
  /\ y = 0
  /\ i = 0
  /\ g = GridNew(node, regions)
  /\ f = Idle
  /\ pending = NoFrame
  /\ ctx = NoExport
  /\ res = None

\* GridNode::layout: layouter.measure_columns(ctx)
MeasureColumns ==
  /\ pc = "measure"
  /\ g' = measure_columns(g)
  /\ pc' = "rows"
  /\ UNCHANGED <<node, regions, y, i, f, pending, ctx, res>>

\* GridLayouter::layout: one iteration of `for y in 0 .. self.rows.len()`
LayoutRow ==
  /\ pc = "rows"
  /\ y < Len(g.rows)
  /\ g' = layout_row(g, y)
  /\ y' = y + 1
  /\ UNCHANGED <<node, regions, pc, i, f, pending, ctx, res>>

\* GridLayouter::layout: the finish_region after the loop; self.finished is
\* returned.
GridFinish ==
  /\ pc = "rows"
  /\ y >= Len(g.rows)
  /\ g' = finish_region(g)
  /\ pc' = "done"
  /\ UNCHANGED <<node, regions, y, i, f, pending, ctx, res>>

NextGrid == MeasureColumns \/ LayoutRow \/ GridFinish

SpecGrid == InitGrid /\ [][NextGrid]_vars
SpecCols == InitCols /\ [][NextGrid]_vars

\* GridNode::layout up to GridLayouter::new, for the inputs of the shrinking
\* of Auto columns: Auto columns only, a row of three children.
InitShrink ==
  /\ node \in {GridNode(tx, <<>>, gx, <<>>, ch) :
                 tx \in SeqsOf({Auto}, 1, MaxCols),
                 gx \in ColGutters, ch \in ShrinkChildLists}
  /\ regions \in ShrinkRegions
  /\ pc = "measure"
  /\ y = 0
  /\ i = 0
  /\ g = GridNew(node, regions)
  /\ f = Idle
  /\ pending = NoFrame
  /\ ctx = NoExport
  /\ res = None

SpecShrink == InitShrink /\ [][NextGrid]_vars

\* FlowNode::layout up to FlowLayouter::new.
InitFlow ==
  /\ node \in {FlowNode(ch) : ch \in SeqsOf(FlowChildren, 0, MaxFlowChildren)}
  /\ regions \in FlowRegions
  /\ ~is_finite(regions.current.y) =>
       (~regions.expand.y /\ \A k \in 1..Len(node.children) : node.children[k].v.rel = 0)
  /\ pc = "flow"
  /\ y = 0
  /\ i = 0
  /\ g = Idle
  /\ f = FlowNew(node, regions)
  /\ pending = NoFrame
  /\ ctx = NoExport
  /\ res = None

\* FlowLayouter::layout: one iteration of `for child in self.children`
LayoutChild ==
  /\ pc = "flow"
  /\ i < Len(f.children)
  /\ f' = layout_child(f, i + 1)
  /\ i' = i + 1
  /\ UNCHANGED <<node, regions, pc, y, g, pending, ctx, res>>

\* FlowLayouter::layout: the finish_region after the loop; self.finished is
\* returned.
FlowFinish ==
  /\ pc = "flow"
  /\ i >= Len(f.children)
  /\ f' = flow_finish_region(f)
  /\ pc' = "done"
  /\ UNCHANGED <<node, regions, y, i, g, pending, ctx, res>>

NextFlow == LayoutChild \/ FlowFinish

SpecFlow == InitFlow /\ [][NextFlow]_vars

Init == InitGrid \/ InitCols \/ InitFlow
Next == NextGrid \/ NextFlow
Spec == Init /\ [][Next]_vars

\* Row layout and flow layout, the two layouters that go through regions.
InitLayout == InitGrid \/ InitFlow
SpecLayout == InitLayout /\ [][Next]_vars

\* ------------------------------------------------------ PDF export
\* The embed elements of a document: with or without a name, under one of
\* two paths; the span of an element is its place in the document.
EmbedKinds == {[name |-> n, resolved_path |-> q] : n \in {None, Some("a")}, q \in {"p", "q"}}
Documents ==
  {[k \in 1..Len(d) |-> EmbedElem(d[k].name, d[k].resolved_path, k)] :
     d \in SeqsOf(EmbedKinds, 0, MaxEmbeds)}

InitEmbed ==
  /\ node = FlowNode(<<>>)
  /\ regions = RegionsOne(Size(0, 0), Size(0, 0), Size(FALSE, FALSE))
  /\ pc = "export"
  /\ y = 0
  /\ i = 0
  /\ g = Idle
  /\ f = Idle
  /\ pending = NoFrame
  /\ ctx \in {WithGlobalRefs(d, e) : d \in Documents, e \in BOOLEAN}
  /\ res = None

\* write_embedded_files(ctx)
WriteEmbeddedFiles ==
  /\ pc = "export"
  /\ res' = Some(write_embedded_files(ctx))
  /\ pc' = "done"
  /\ UNCHANGED <<node, regions, y, i, g, f, pending, ctx>>

SpecEmbed == InitEmbed /\ [][WriteEmbeddedFiles]_vars

\* ------------------------------------------- the loops, step by step
\* GridLayouter::layout with layout_linear_row's `while` loop taken one
\* iteration at a time, for rows taller than every region.
StepRowTracks == {Auto, Linear(Pt(3), 0), Linear(Pt(7), 0)}

InitSteps ==
  /\ node \in {GridNode(tx, ty, <<>>, gy, ch) :
                 tx \in ColSetups, ty \in SeqsOf(StepRowTracks, 0, MaxRows),
                 gy \in {<<>>, <<Linear(Pt(7), 0)>>}, ch \in GridChildLists}
  /\ regions \in RegionSetups
  /\ pc = "measure"
  /\ y = 0
  /\ i = 0
  /\ g = GridNew(node, regions)
  /\ f = Idle
  /\ pending = NoFrame
  /\ ctx = NoExport
  /\ res = None

\* A slip in layout_linear_row: the loop body goes round without finishing
\* the region.
skip_region_stay(self, height) == self

\* A slip in layout_linear_row: the loop's condition without the test for
\* the last region.
must_skip_unfit(self, height) == ~fits(self.regions.current.y, height)

\* layout_linear_row, the loop's condition and its body up to the return for
\* gutter rows.
must_skip(self, height) ==
  ~fits(self.regions.current.y, height) /\ ~in_last(self.regions)
skip_region(self, height) ==
  finish_region([self EXCEPT !.cts.max.y = Some(self.used.y + height)])

\* GridLayouter::layout: one iteration of the loop over the rows, up to the
\* `while` of layout_linear_row when the row is linear.
RowStart ==
  /\ pc = "rows"
  /\ y < Len(g.rows)
  /\ LET s0 == IF y % 2 = 0 /\ is_full(g.regions) THEN finish_region(g) ELSE g
         row == s0.rows[y + 1]
     IN IF row.t = "linear"
          THEN /\ g' = s0
               /\ pending' = layout_single_row(
                               s0, LinearResolve(row, s0.regions.base.y), y)
               /\ pc' = "skip"
               /\ y' = y
               /\ i' = 0
          ELSE /\ g' = layout_row(g, y)
               /\ y' = y + 1
               /\ UNCHANGED <<pc, pending, i, ctx, res>>
  /\ UNCHANGED <<node, regions, f, ctx, res>>

\* layout_linear_row: one iteration of the `while` loop; in the grid i
\* counts the iterations made for the row.
SkipRegion ==
  /\ pc = "skip"
  /\ must_skip(g, pending.size.y)
  /\ g' = skip_region(g, pending.size.y)
  /\ i' = i + 1
  /\ IF y % 2 = 1
       THEN pc' = "rows" /\ y' = y + 1 /\ pending' = NoFrame
       ELSE UNCHANGED <<pc, y, pending, ctx, res>>
  /\ UNCHANGED <<node, regions, f, ctx, res>>

\* layout_linear_row: the push_row after the loop.
PushLinearRow ==
  /\ pc = "skip"
  /\ ~must_skip(g, pending.size.y)
  /\ g' = push_row(g, pending)
  /\ pc' = "rows"
  /\ y' = y + 1
  /\ pending' = NoFrame
  /\ UNCHANGED <<node, regions, i, f, ctx, res>>

InitRuns == InitSteps \/ InitFlow
NextRuns ==
  MeasureColumns \/ RowStart \/ SkipRegion \/ PushLinearRow \/ GridFinish
    \/ LayoutChild \/ FlowFinish

SpecRuns == InitRuns /\ [][NextRuns]_vars

\* ============================================================== claims
\* What the claims speak of, stated from the inputs (node, regions).

\* The number of content columns.
Columns == Max(Len(node.tracks.x), 1)

SetMax(S) == CHOOSE m \in S : \A n \in S : n <= m

\* The width of the widest child assigned (row-major) to content column cx.
ContentWidth(cx) ==
  SetMax({0} \cup {node.children[k].w : k \in {j \in 1..Len(node.children) :
                                                   (j - 1) % Columns = cx}})

\* A linear value resolved against a base: abs + rel * base.
Resolved(v, base) == v.abs + ((v.rel * base) \div 2)

ColsOf(t) == {k \in 1..Len(g.cols) : g.cols[k].t = t}
SumOver(S, F(_)) == SumSeq([k \in 1..Len(g.cols) |-> IF k \in S THEN F(k) ELSE 0])
RcolOf(k) == g.rcols[k]
WeightOf(k) == g.cols[k].fr
LinearOf(k) == Resolved(g.cols[k], regions.base.x)
MeasuredOf(k) == ContentWidth((k - 1) \div 2)

\* Region width minus the linear columns.
Available == regions.current.x - SumOver(ColsOf("linear"), LinearOf)
\* Region width minus the linear columns minus the Auto columns' content.
Leftover == Available - SumOver(ColsOf("auto"), MeasuredOf)
TotalWeight == SumOver(ColsOf("fr"), WeightOf)

\* C2: with total fractional column weight W > 0 and leftover space L >= 0,
\* every Fractional column is L * weight / W wide, and the Fractional columns
\* sum to L.
C2_FractionalColumnsShareLeftover ==
  (pc # "measure" /\ TotalWeight > 0 /\ Leftover >= 0) =>
     /\ \A k \in ColsOf("fr") : g.rcols[k] * TotalWeight = Leftover * g.cols[k].fr
     /\ SumOver(ColsOf("fr"), RcolOf) = Leftover

\* C2 witness: columns measured with an Auto column with content and two
\* Fractional columns of different weight sharing a positive leftover.
C2_Witness ==
  /\ pc = "rows" /\ Leftover > 0
  /\ \E a \in ColsOf("auto") : g.rcols[a] > 0
  /\ \E k, l \in ColsOf("fr") : g.cols[k].fr # g.cols[l].fr /\ g.rcols[k] # g.rcols[l]

\* C3: when the measured Auto columns sum to more than the available space,
\* the shrunk Auto columns sum to the available space; columns at or below
\* available / count keep their width, the others all get the same width.
C3_ShrinkFillsAvailable ==
  LET autos == ColsOf("auto")
      count == Cardinality(autos)
      small == {k \in autos : MeasuredOf(k) * count <= Available}
  IN (pc # "measure" /\ Available >= 0 /\ Leftover < 0) =>
       /\ SumOver(autos, RcolOf) = Available
       /\ \A k \in small : g.rcols[k] = MeasuredOf(k)
       /\ \A k, l \in autos \ small : g.rcols[k] = g.rcols[l]

\* C3 witness: three Auto columns shrunk, one of them below the fair share
\* and kept, two above it.
C3_Witness ==
  LET autos == ColsOf("auto")
  IN /\ pc = "rows" /\ Available > 0 /\ Leftover < 0 /\ Cardinality(autos) = 3
     /\ \E k \in autos : MeasuredOf(k) > 0 /\ g.rcols[k] = MeasuredOf(k)
     /\ Cardinality({k \in autos : g.rcols[k] < MeasuredOf(k)}) = 2

\* C4: when every column (content and gutter) is Linear, each resolved width
\* is its linear value resolved against the region base and the used width
\* is their sum, whatever the region width.
C4_LinearColumnsIgnoreRegionWidth ==
  (pc # "measure" /\ ColsOf("linear") = 1..Len(g.cols)) =>
     /\ \A k \in 1..Len(g.cols) : g.rcols[k] = LinearOf(k)
     /\ g.used.x = SumOver(1..Len(g.cols), LinearOf)

\* C4 witness: columns all Linear, one relative to a base that differs from
\* the region width, together wider than the region.
C4_Witness ==
  /\ pc = "rows" /\ ColsOf("linear") = 1..Len(g.cols)
  /\ \E k \in 1..Len(g.cols) : g.cols[k].rel > 0
  /\ regions.base.x # regions.current.x
  /\ g.used.x > regions.current.x

\* The regions a Linear row of height h, first tried in region r, passes over
\* before the region it is placed in: those it does not fit that are not the
\* last.
RECURSIVE RegionsPassed(_, _)
RegionsPassed(r, h) ==
  IF r.current.y >= h \/ in_last(r) THEN 0 ELSE 1 + RegionsPassed(next(r), h)

\* C1: a Linear content row that does not fit the current region is placed in
\* the first following region it fits, every region before that one being
\* finalized, and in the last region if it fits none.
C1_LinearRowDeferredToFittingRegion ==
  [][(pc = "rows" /\ y < Len(g.rows) /\ y % 2 = 0 /\ g.rows[y + 1].t = "linear") =>
       LET full == is_full(g.regions)
           start == IF full THEN next(g.regions) ELSE g.regions
           before == IF full THEN <<>> ELSE g.lrows
           h == Resolved(g.rows[y + 1], start.base.y)
           k == RegionsPassed(start, h)
           placed == g'.lrows[Len(g'.lrows)]
       IN /\ Len(g'.finished) = Len(g.finished) + (IF full THEN 1 ELSE 0) + k
          /\ Len(g'.lrows) = (IF k = 0 THEN Len(before) ELSE 0) + 1
          /\ placed.kind = "frame" /\ placed.y = y /\ placed.frame.size.y = h
          /\ \A n \in (Len(g'.finished) - k + 2)..Len(g'.finished) :
                g'.finished[n].item.rows = <<>>
     ]_vars

\* C1 witness: a Linear content row was just placed alone in a region, after
\* the region holding the rows before it and an empty region it did not fit
\* were finalized.
C1_Witness ==
  /\ pc = "rows" /\ y >= 1 /\ (y - 1) % 2 = 0 /\ g.rows[y].t = "linear"
  /\ Len(g.lrows) = 1 /\ g.lrows[1].y = y - 1
  /\ Len(g.finished) >= 2
  /\ g.finished[Len(g.finished)].item.rows = <<>>
  /\ g.finished[Len(g.finished) - 1].item.rows # <<>>
  /\ g.regions.current.y >= 0

\* The rows merged into finished frame n that come from Fractional tracks.
FrRowsOf(n) ==
  {k \in 1..Len(g.finished[n].item.rows) :
     g.rows[g.finished[n].item.rows[k].y + 1].t = "fr"}

\* C5: a Fractional row reached in the current region is recorded unresolved
\* and takes no height; in a finished region each Fractional row has the
\* height weight / total weight * (full height - height of the other rows),
\* zero in a region of infinite height, so in a finite region the Fractional
\* rows together take the leftover.
C5_FractionalRowsResolvedAtFinish ==
  /\ pc = "rows" =>
       /\ \A k \in 1..Len(g.lrows) :
             g.rows[g.lrows[k].y + 1].t = "fr" => g.lrows[k].kind = "fr"
       /\ g.used.y = SumSeq([k \in 1..Len(g.lrows) |->
                               IF g.lrows[k].kind = "fr" THEN 0
                               ELSE g.lrows[k].frame.size.y])
  /\ \A n \in 1..Len(g.finished) :
       LET rows == g.finished[n].item.rows
           frs == FrRowsOf(n)
           full == RegionIterY(regions, n)[1]
           used == SumSeq([k \in 1..Len(rows) |-> IF k \in frs THEN 0 ELSE rows[k].height])
           total == SumSeq([k \in 1..Len(rows) |-> IF k \in frs THEN g.rows[rows[k].y + 1].fr ELSE 0])
       IN frs # {} =>
            IF is_finite(full)
              THEN /\ \A k \in frs :
                         rows[k].height * total = g.rows[rows[k].y + 1].fr * (full - used)
                   /\ SumSeq([k \in 1..Len(rows) |-> IF k \in frs THEN rows[k].height ELSE 0])
                        = full - used
              ELSE \A k \in frs : rows[k].height = 0

\* C5 witness: a finished region of height 6pt with rows Auto 1pt,
\* Fractional(1), Auto 1pt (and the two zero gutter rows between them), the
\* fractional row 4pt high.
C5_Witness ==
  \E n \in 1..Len(g.finished) :
    LET rows == g.finished[n].item.rows
    IN /\ Len(rows) = 5 /\ FrRowsOf(n) = {3}
       /\ g.finished[n].item.size.y = Pt(6)
       /\ rows[1].height = Pt(1) /\ rows[3].height = Pt(4) /\ rows[5].height = Pt(1)
       /\ rows[2].height = 0 /\ rows[4].height = 0
       /\ rows[3].pos = Pt(1) /\ rows[5].pos = Pt(5)

\* C9: cell lookup: position (x, y) with x and y even holds the child with
\* index (y/2) * columns + (x/2), every other position holds none; every
\* child is at exactly one position, in row-major order.
C9_CellLookup ==
  LET xs == 0..(Len(g.cols) - 1)
      ys == 0..(Len(g.rows) - 1)
      at(k) == {p \in xs \X ys : cell(g, p[1], p[2]) = Some(k)}
  IN /\ \A x \in xs, yy \in ys :
          cell(g, x, yy) =
            IF x % 2 = 0 /\ yy % 2 = 0 /\ (yy \div 2) * Columns + (x \div 2) < Len(node.children)
              THEN Some((yy \div 2) * Columns + (x \div 2) + 1)
              ELSE None
     /\ \A k \in 1..Len(node.children) : Cardinality(at(k)) = 1
     /\ \A k, l \in 1..Len(node.children) :
          k < l => \A p \in at(k), q \in at(l) :
                     p[2] < q[2] \/ (p[2] = q[2] /\ p[1] < q[1])

\* C9 witness: a grid of two content columns with a gutter column and two
\* rows, three children, the last content cell empty.
C9_Witness ==
  /\ Len(g.cols) = 3 /\ Len(g.rows) = 3 /\ Len(node.children) = 3
  /\ cell(g, 2, 2) = None /\ cell(g, 0, 2) = Some(3) /\ cell(g, 2, 0) = Some(2)

\* C10: no call of cell fails one of its assertions.
C10_CellAssertionsHold == ~g.panicked

\* C10 witness: the layout has returned, and a finished region holds a
\* Fractional row with a child in it, looked up at finalization.
C10_Witness ==
  /\ pc = "done" /\ ~g.panicked
  /\ \E n \in 1..Len(g.finished) : \E k \in FrRowsOf(n) :
       \E it \in 1..Len(g.finished[n].item.items) :
         g.finished[n].item.items[it].pos.y = g.finished[n].item.rows[k].pos

\* --------------------------------------------------------------- flow
\* What a flow child takes of the first region: a spacing its linear value
\* resolved against the region height, a node its height.
Amount(k) ==
  LET c == node.children[k]
  IN IF c.kind = "spacing" THEN Resolved(c.v, regions.current.y) ELSE c.node.h
AmountBefore(k) == SumSeq([j \in 1..(k - 1) |-> Amount(j)])

\* Only linear spacing and top-aligned nodes in the flow.
PlainFlow ==
  \A k \in 1..Len(node.children) :
    LET c == node.children[k]
    IN IF c.kind = "spacing" THEN c.v.t = "linear"
       ELSE c.node.align = "top" /\ ~c.node.placed

\* C6: a flow of linear spacing and top-aligned nodes that fits its first
\* region yields one frame; each node frame's y is the sum of the spacings
\* and node heights before it, and without vertical expansion the frame's
\* height is the sum of all spacings and node heights.
C6_FlowStacksInOrder ==
  (pc = "done" /\ f.finished # <<>> /\ PlainFlow
     /\ AmountBefore(Len(node.children) + 1) <= regions.current.y) =>
    LET out == f.finished[1].item
        nodes == SelectSeq([k \in 1..Len(node.children) |-> k],
                           LAMBDA k : node.children[k].kind = "node")
    IN /\ Len(f.finished) = 1
       /\ Len(out.items) = Len(nodes)
       /\ \A j \in 1..Len(nodes) :
            /\ out.items[j].child = nodes[j]
            /\ out.items[j].pos.y = AmountBefore(nodes[j])
            /\ out.items[j].size.y = node.children[nodes[j]].node.h
       /\ ~regions.expand.y => out.size.y = AmountBefore(Len(node.children) + 1)

\* C6 witness: Linear(1pt) then a node 5pt high in a region 10pt high, no
\* expansion: the frame is 6pt high and the node is at y = 1pt.
C6_Witness ==
  /\ pc = "done" /\ PlainFlow /\ Len(node.children) = 2
  /\ node.children[1] = SpacingChild(Linear(Pt(1), 0))
  /\ node.children[2].kind = "node" /\ node.children[2].node.h = Pt(5)
  /\ regions.current.y = Pt(10) /\ ~regions.expand.y
  /\ Len(f.finished) = 1
  /\ f.finished[1].item.size.y = Pt(6)
  /\ f.finished[1].item.items[1].pos.y = Pt(1)

\* The children with a spacing of zero amount inserted after the first k.
WithZeroSpacing(children, k) ==
  SubSeq(children, 1, k) \o <<SpacingChild(Linear(0, 0))>>
    \o SubSeq(children, k + 1, Len(children))

\* The geometry of returned frames: each frame's size and the position and
\* size of each of its items.
Geometry(frames) ==
  [n \in 1..Len(frames) |->
     [size |-> frames[n].item.size,
      items |-> [j \in 1..Len(frames[n].item.items) |->
                   [pos |-> frames[n].item.items[j].pos,
                    size |-> frames[n].item.items[j].size]]]]

\* C7: a spacing of zero amount inserted anywhere in (or appended to) the
\* children leaves the geometry of the returned frames unchanged.
C7_ZeroSpacingIsNoOp ==
  (pc = "done" /\ f.finished # <<>>) =>
    \A k \in 0..Len(node.children) :
      Geometry(FlowLayout(FlowNode(WithZeroSpacing(node.children, k)), regions))
        = Geometry(f.finished)

\* The FlowLayouter after the loop has taken the first n children.
RECURSIVE FlowStateAfter(_, _, _)
FlowStateAfter(self, k, n) ==
  IF k > n THEN self ELSE FlowStateAfter(layout_child(self, k), k + 1, n)

\* How far C7 holds (not a claim's formula): a zero spacing reached while the
\* remaining height of the region is not negative changes nothing.
ZeroSpacingIsNoOpUnlessOverfull ==
  (pc = "done" /\ f.finished # <<>>) =>
    \A k \in 0..Len(node.children) :
      FlowStateAfter(FlowNew(node, regions), 1, k).regions.current.y >= 0 =>
        Geometry(FlowLayout(FlowNode(WithZeroSpacing(node.children, k)), regions))
          = Geometry(f.finished)

\* C7 refuted: a rigid node overflowed the last region (remaining height
\* negative), and a zero spacing after it changes the frame's height.
C7_Overfull ==
  /\ pc = "done" /\ f.finished # <<>>
  /\ \E k \in 0..Len(node.children) :
       /\ FlowStateAfter(FlowNew(node, regions), 1, k).regions.current.y < 0
       /\ Geometry(FlowLayout(FlowNode(WithZeroSpacing(node.children, k)), regions))
            # Geometry(f.finished)

\* ------------------------------------------------- column measurement
\* C11: whenever measure_columns has called shrink_auto_columns, the count of
\* Auto columns it divided by was at least 1 and at least one Auto column
\* was wider than the fair share (overlarge >= 1).
C11_ShrinkDivisorsPositive ==
  g.shrink # None => g.shrink[1].count >= 1 /\ g.shrink[1].overlarge >= 1

\* C11 witness: shrink_auto_columns was called for two Auto columns, one of
\* them within the fair share and one overlarge.
C11_Witness ==
  /\ pc = "rows" /\ g.shrink # None
  /\ g.shrink[1].count = 2 /\ g.shrink[1].overlarge = 1
  /\ Leftover < 0 /\ Available >= 0

\* --------------------------------------------------------- grid setup
\* An interleaved list of n content tracks: 2n - 1 entries; the entry at an
\* even index 2k is the k-th given content track or, past the given ones, a
\* given one or Auto; the entry at an odd index is a given gutter or zero.
Interleaved(list, content, gutter, n) ==
  /\ Len(list) = 2 * n - 1
  /\ \A k \in 0..(n - 1) :
       /\ k < Len(content) => list[2 * k + 1] = content[k + 1]
       /\ list[2 * k + 1] \in {content[j] : j \in 1..Len(content)} \cup {Auto}
  /\ \A k \in 0..(n - 2) :
       /\ k < Len(gutter) => list[2 * k + 2] = gutter[k + 1]
       /\ list[2 * k + 2] \in {gutter[j] : j \in 1..Len(gutter)} \cup {Linear(0, 0)}

\* ceil(a / b)
CeilDiv(a, b) == (a + b - 1) \div b

\* C12: c = max(1, given column tracks), r = max(given row tracks,
\* ceil(children / c)); the column list has 2c - 1 entries and, when r >= 1,
\* the row list 2r - 1, content tracks at even indices, gutter tracks at odd
\* indices, no trailing gutter.
C12_GridSetup ==
  LET c == Max(1, Len(node.tracks.x))
      r == Max(Len(node.tracks.y), CeilDiv(Len(node.children), c))
  IN /\ Interleaved(g.cols, node.tracks.x, node.gutter.x, c)
     /\ r >= 1 => Interleaved(g.rows, node.tracks.y, node.gutter.y, r)
     /\ r = 0 => g.rows = <<>>

\* C12 witness: two column tracks, one row track and three children: two
\* content rows are needed, so three columns and three rows with the gutters.
C12_Witness ==
  /\ pc = "measure"
  /\ Len(node.tracks.x) = 2 /\ Len(node.tracks.y) = 1 /\ Len(node.children) = 3
  /\ Len(g.cols) = 3 /\ Len(g.rows) = 3
  /\ g.rows[3] = node.tracks.y[1]

\* -------------------------------------------------------- termination
\* The regions still ahead of the current one, as far as the loop skipping
\* regions can go: the backlog, and the last region when not yet in it.
RegionsLeft(r) == Len(r.backlog) + (IF in_last(r) THEN 0 ELSE 1)

\* What is left of a layout call, a natural number: the rows or children
\* the loop has not taken and, inside layout_linear_row's loop, the regions
\* it can still skip.
Weight == Len(regions.backlog) + 4
Remaining ==
  CASE pc = "measure" -> (Len(g.rows) + 1) * Weight + Weight - 1
    [] pc = "rows" -> (Len(g.rows) - y) * Weight + Weight - 1
    [] pc = "skip" -> (Len(g.rows) - y) * Weight + RegionsLeft(g.regions) + 1
    [] pc = "flow" -> Len(f.children) - i + 1
    [] pc = "done" -> 0

\* C13: every flow or grid layout call terminates, for a region sequence
\* with a finite backlog and for one whose last region repeats: every step of
\* the call, and every turn of the loop skipping regions for a Linear row
\* that fits no region, lowers what is left of the call, which is never
\* negative, so the call makes finitely many steps and the loop finalizes
\* finitely many regions before the row is placed.
C13_LayoutTerminates == [][Remaining' < Remaining /\ Remaining' >= 0]_vars

\* C13 witness: a grid call has returned after a content row 7pt high, taller
\* than every region, skipped the backlog into the repeating last region
\* and was placed there.
C13_Witness ==
  /\ pc = "done" /\ g # Idle
  /\ regions.backlog # <<>> /\ regions.last # None
  /\ Len(g.rows) = 1 /\ g.rows[1] = Linear(Pt(7), 0)
  /\ Len(g.finished) = 3
  /\ g.finished[3].item.size.y = Pt(7)
  /\ g.finished[1].item.size.y = 0 /\ g.finished[2].item.size.y = 0

\* ---------------------------------------------------- width constraints
\* The width constraints columns measurement has set: which of min, exact
\* and max are set on the x axis.
WidthCases ==
  {c \in {"min", "exact", "max"} :
     CASE c = "min" -> g.cts.min.x # None
       [] c = "exact" -> g.cts.exact.x # None
       [] c = "max" -> g.cts.max.x # None}

LinearSum == SumOver(ColsOf("linear"), LinearOf)
OnlyLinear == ColsOf("linear") = 1..Len(g.cols)

\* C14: after column measurement exactly one width case is recorded: none
\* with only Linear columns; only a minimum when an Auto or Fractional column
\* exists, the content fits and nothing is grown or shrunk; only an exact
\* width, the region's current width, when fractional columns are grown or
\* Auto columns shrunk; only a maximum, the linear sum, when the linear
\* columns alone exceed the region width and an Auto or Fractional column
\* exists.
C14_OneWidthCase ==
  (pc = "rows" /\ y = 0) =>
    /\ OnlyLinear => WidthCases = {}
    /\ (~OnlyLinear /\ Available >= 0 /\ Leftover >= 0 /\ TotalWeight = 0)
         => WidthCases = {"min"}
    /\ (Available >= 0 /\ ((Leftover >= 0 /\ TotalWeight > 0) \/ Leftover < 0))
         => WidthCases = {"exact"} /\ g.cts.exact.x = Some(regions.current.x)
    /\ (~OnlyLinear /\ Available < 0)
         => WidthCases = {"max"} /\ g.cts.max.x = Some(LinearSum)

\* C14 witness: two linear columns 2pt wide and an Auto column in a region
\* 2pt wide: only the maximum width, 4pt, is recorded.
C14_Witness ==
  /\ pc = "rows" /\ y = 0
  /\ ColsOf("auto") # {} /\ Available < 0 /\ LinearSum = Pt(4)
  /\ regions.current.x = Pt(2)
  /\ g.cts.max.x = Some(Pt(4)) /\ WidthCases = {"max"}

\* A second case of C14 reached: Auto columns shrunk, only the exact width
\* recorded.
C14_ShrunkExact ==
  /\ pc = "rows" /\ y = 0 /\ Available >= 0 /\ Leftover < 0
  /\ WidthCases = {"exact"}

\* ----------------------------------------------------- flow constraints
\* The n-th region of the sequence the call was given, untouched: its size
\* and its base.  The first region has the base it was given, a later one
\* its own size; None past the end of a sequence without a last region.
RegionAt(n) ==
  IF n = 1 THEN Some([size |-> regions.current, base |-> regions.base])
  ELSE IF n - 1 <= Len(regions.backlog)
    THEN Some([size |-> regions.backlog[n - 1], base |-> regions.backlog[n - 1]])
  ELSE IF regions.last # None
    THEN Some([size |-> regions.last[1], base |-> regions.last[1]])
  ELSE None

\* C15: every frame the flow layouter returns carries constraints whose
\* exact size, on both axes, is the full size of the region it was laid out
\* in, as it was before content consumed space, and whose base is the base
\* of that region.
C15_FlowConstraints ==
  \A n \in 1..Len(f.finished) :
    /\ RegionAt(n) # None
    /\ LET r == RegionAt(n)[1]
           cts == f.finished[n].cts
       IN /\ cts.exact = Size(Some(r.size.x), Some(r.size.y))
          /\ cts.base = Size(Some(r.base.x), Some(r.base.y))

\* C15 witness: a flow that filled its first region and went on into a
\* backlog region of another height; the second frame has the exact size
\* and base of that region.
C15_Witness ==
  /\ pc = "done" /\ Len(f.finished) = 2
  /\ regions.backlog # <<>> /\ regions.backlog[1].y # regions.current.y
  /\ f.finished[1].item.items # <<>> /\ f.finished[2].item.items # <<>>
  /\ f.finished[1].cts.exact.y = Some(regions.current.y)
  /\ f.finished[1].cts.base.y = Some(regions.base.y)
  /\ f.finished[2].cts.exact.y = Some(regions.backlog[1].y)

\* ---------------------------------------------- grid height constraints
\* Of finished frame n: the weight of its Fractional rows, the height of its
\* other rows, and the full height of the region it was laid out in.
FrWeightOf(n) ==
  SumSeq([k \in 1..Len(g.finished[n].item.rows) |->
            IF k \in FrRowsOf(n) THEN g.rows[g.finished[n].item.rows[k].y + 1].fr ELSE 0])
UsedOf(n) ==
  SumSeq([k \in 1..Len(g.finished[n].item.rows) |->
            IF k \in FrRowsOf(n) THEN 0 ELSE g.finished[n].item.rows[k].height])
FullOf(n) == RegionIterY(regions, n)[1]

\* The first two sentences of C16, of every finished region.
HeightRecorded ==
  \A n \in 1..Len(g.finished) :
    LET e == g.finished[n]
    IN IF FrWeightOf(n) > 0 /\ is_finite(FullOf(n))
         THEN e.item.size.y = FullOf(n) /\ e.cts.exact.y = Some(FullOf(n))
         ELSE /\ e.item.size.y = UsedOf(n)
              /\ e.cts.min.y = Some(Min(UsedOf(n), FullOf(n)))

\* The last sentence of C16, of the region a step finishes first: the step
\* finishes it after the last row or because it is full when a content row
\* is reached, so not for a row that goes on in the next region nor for a
\* row that is skipped out of it.
NoExactNoMax ==
  LET n == Len(g.finished) + 1
  IN (/\ pc = "rows" /\ Len(g'.finished) >= n
      /\ \A k \in 1..Len(g.lrows) : g.lrows[k].kind # "fr"
      /\ y >= Len(g.rows) \/ (y % 2 = 0 /\ is_full(g.regions)))
       => g'.finished[n].cts.exact.y = None /\ g'.finished[n].cts.max.y = None

\* C16: a finished region with fractional row weight > 0 and finite full
\* height has a frame as high as the region and the exact height constraint
\* set to the full height; otherwise the frame is as high as the rows used
\* and the minimum height constraint is min(used, full).  With no fractional
\* row, no multi-region row and no skipped row in the region, no exact and
\* no maximum height constraint is set.
C16_GridHeightConstraints == [][HeightRecorded' /\ NoExactNoMax]_vars

\* C16 witness: a finished region 6pt high with a fractional row: the rows
\* use 2pt, the frame is 6pt high and the exact height is 6pt; and a
\* finished region without fractional row whose rows overflow it, the
\* minimum height being the full height.
C16_Witness ==
  /\ pc = "done"
  /\ \E n \in 1..Len(g.finished) :
       /\ FrWeightOf(n) > 0 /\ FullOf(n) = Pt(6) /\ UsedOf(n) = Pt(2)
       /\ g.finished[n].item.size.y = Pt(6)
       /\ g.finished[n].cts.exact.y = Some(Pt(6))

\* The other case of C16 reached: rows 7pt high in a last region of 6pt,
\* the minimum height constraint being the full height.
C16_Overfull ==
  /\ pc = "done"
  /\ \E n \in 1..Len(g.finished) :
       /\ FrWeightOf(n) = 0 /\ UsedOf(n) > FullOf(n)
       /\ g.finished[n].cts.min.y = Some(FullOf(n))
       /\ g.finished[n].cts.exact.y = None /\ g.finished[n].cts.max.y = None

\* ------------------------------------------------------ file embedding
\* C17: write_embedded_files returns an error at the first embed element
\* when the standard does not allow embedded files and the document has an
\* embed element, and then no chunk and no name map; without embed element
\* it succeeds with an empty map whatever the standard; when embedding is
\* allowed it succeeds and writes one embedded file stream and one file
\* specification per embed element.
C17_EmbeddedFiles ==
  pc = "done" =>
    LET r == res[1]
        n == Len(ctx.elements)
    IN /\ (~ctx.standards.embedded_files /\ n > 0) =>
            /\ ~r.ok /\ r.span = ctx.elements[1].span
            /\ DOMAIN r = {"ok", "span", "message"}
       /\ n = 0 => r.ok /\ r.embedded_files = <<>> /\ r.chunk = PdfChunkNew
       /\ ctx.standards.embedded_files =>
            /\ r.ok
            /\ Len(r.chunk.streams) = n /\ Len(r.chunk.specs) = n
            /\ \A k \in 1..n :
                 /\ r.chunk.streams[k].of = ctx.elements[k].span
                 /\ r.chunk.specs[k].ef = r.chunk.streams[k].ref
                 /\ r.chunk.specs[k].path = ctx.elements[k].resolved_path

\* C17 witness: three embed elements written under a standard that allows
\* them, and the same document refused under one that does not.
C17_Witness ==
  /\ pc = "done" /\ Len(ctx.elements) = 3 /\ ctx.standards.embedded_files
  /\ res[1].ok /\ Len(res[1].chunk.specs) = 3 /\ Len(res[1].chunk.streams) = 3

\* The error case of C17 reached.
C17_Refused ==
  /\ pc = "done" /\ Len(ctx.elements) = 2 /\ ~ctx.standards.embedded_files
  /\ ~res[1].ok /\ res[1].span = 1

\* ------------------------------------------------------- flow spacing
\* The step lays out a linear spacing child.
SpacingStep ==
  /\ pc = "flow" /\ i < Len(f.children)
  /\ f.children[i + 1].kind = "spacing" /\ f.children[i + 1].v.t = "linear"

\* C18: the amount a spacing item takes from the region is never negative:
\* laying out a spacing item never increases the remaining region height
\* and never decreases the used height.
C18_SpacingNeverNegative ==
  [][SpacingStep =>
       /\ f'.regions.current.y <= f.regions.current.y
       /\ f'.used.y >= f.used.y]_vars

\* How far C18 holds (not a claim's formula): in a region whose remaining
\* height is not negative, the spacing takes min(resolved, remaining).
SpacingClampedUnlessOverfull ==
  [][(SpacingStep /\ f.regions.current.y >= 0) =>
       LET resolved == Resolved(f.children[i + 1].v, f.full.y)
           taken == Min(resolved, f.regions.current.y)
       IN /\ taken >= 0
          /\ f'.used.y = f.used.y + taken
          /\ f'.regions.current.y = LSub(f.regions.current.y, taken)]_vars

\* C18 refuted: a spacing reached in an overfull region has given height
\* back: the used height is lower than the heights of the nodes before it.
C18_Overfull ==
  /\ pc = "flow" /\ i >= 1 /\ f.finished = <<>>
  /\ f.children[i].kind = "spacing" /\ f.children[i].v.t = "linear"
  /\ \A k \in 1..(i - 1) : f.children[k].kind = "node" /\ ~f.children[k].node.placed
  /\ f.used.y < AmountBefore(i)

\* ------------------------------------------------- flow region breaks
\* The step lays out a node reached while the remaining height of the
\* current region is zero or negative.
NodeStepExhausted ==
  /\ pc = "flow" /\ i < Len(f.children)
  /\ f.children[i + 1].kind = "node"
  /\ f.regions.current.y <= 0

\* The step finalizes the current region before the node is laid out: the
\* next finished frame holds what the region had and nothing of the node,
\* whose first frame is recorded in a later region.
FinalizedBeforeNode ==
  LET n == Len(f.finished) + 1
      before == {f.items[k].child : k \in {j \in 1..Len(f.items) :
                                              f.items[j].kind \in {"frame", "placed"}}}
  IN /\ Len(f'.finished) >= n
     /\ {f'.finished[n].item.items[k].child :
           k \in 1..Len(f'.finished[n].item.items)} = before
     /\ \/ \E k \in 1..Len(f'.items) : f'.items[k].child = i + 1
        \/ \E m \in (n + 1)..Len(f'.finished) :
             \E k \in 1..Len(f'.finished[m].item.items) :
               f'.finished[m].item.items[k].child = i + 1

C19_LastRegion ==
  /\ pc = "flow" /\ i = 2 /\ regions.current.y = Pt(1)
  /\ regions.backlog = <<>> /\ regions.last = None
  /\ f.finished = <<>> /\ Len(f.items) = 2
  /\ f.items[1].kind = "frame" /\ f.items[2].kind = "frame"
  /\ f.items[1].size.y >= Pt(1)

\* ------------------------------------------------- grid region breaks
\* The step lays out row y, reached while the current region is full.
RowStepFull == pc = "rows" /\ y < Len(g.rows) /\ is_full(g.regions)

\* C20: the region-full check runs only before content rows.  When a
\* content row (even index) is reached and the region is full, the region is
\* finalized before the row is laid out: the next finished frame holds the
\* rows the region had, not the row reached, and was not finished for a
\* skipped row.  When a gutter row (odd index) is reached and the region is
\* full, the region is not finalized through the check: a region the step
\* finishes is finished by the loop skipping regions, which records a
\* maximum height.
C20_FullCheckBeforeContentRows ==
  [][RowStepFull =>
       LET n == Len(g.finished) + 1
       IN IF y % 2 = 0
            THEN /\ Len(g'.finished) >= n
                 /\ [k \in 1..Len(g'.finished[n].item.rows) |->
                       g'.finished[n].item.rows[k].y] = [k \in 1..Len(g.lrows) |-> g.lrows[k].y]
                 /\ \A k \in 1..Len(g.lrows) : g.lrows[k].y < y
                 /\ g.fr = 0 => g'.finished[n].cts.max.y = None
            ELSE \/ g'.finished = g.finished
                 \/ /\ Len(g'.finished) = n
                    /\ g'.finished[n].cts.max.y # None
                    /\ g'.lrows = <<>>]_vars

\* C20 witness: the rows of a region left no height, a further region
\* follows, and the next content row was laid out after the region was
\* finished by the check: the finished frame records no maximum and no
\* exact height, and the row is the first of the new region.
C20_Witness ==
  /\ pc = "rows" /\ y >= 3 /\ (y - 1) % 2 = 0
  /\ g.finished # <<>>
  /\ LET e == g.finished[Len(g.finished)]
     IN /\ e.item.region.used >= e.item.region.full /\ ~e.item.region.last
        /\ e.cts.max.y = None /\ e.cts.exact.y = None
        /\ e.item.rows # <<>>
        /\ e.item.rows[Len(e.item.rows)].y = y - 2
  /\ Len(g.lrows) = 1 /\ g.lrows[1].y = y - 1

\* A gutter row reached in a full region and pushed into it: the region was
\* not finished.
C20_GutterInFullRegion ==
  /\ pc = "rows" /\ y >= 2 /\ (y - 1) % 2 = 1
  /\ g.lrows # <<>> /\ g.lrows[Len(g.lrows)].y = y - 1
  /\ g.regions.current.y <= 0 /\ ~in_last(g.regions)
  /\ Len(g.lrows) >= 2

\* ---------------------------------------------------- grid gutter rows
\* The step lays out a Linear gutter row (odd index) whose height does not
\* fit the remaining height of the current region.
GutterStepUnfit ==
  /\ pc = "rows" /\ y < Len(g.rows) /\ y % 2 = 1 /\ g.rows[y + 1].t = "linear"
  /\ g.regions.current.y < Resolved(g.rows[y + 1], g.regions.base.y)

\* C21 as stated: a Linear gutter row whose height does not fit the
\* remaining space of the current region does not trigger a region
\* finalization and is not pushed as a row.
C21_UnfitGutterSkippedEntirely ==
  [][GutterStepUnfit =>
       /\ g'.finished = g.finished
       /\ \A k \in 1..Len(g'.lrows) : g'.lrows[k].y # y]_vars

\* C21 amended: a Linear gutter row whose height does not fit the remaining
\* space of the current region, that region not being the last, finalizes
\* that one region (the frame holds the rows the region had) and is pushed as
\* a row into no region, the next region starting empty; in the last region
\* it is pushed as a row and no region is finalized.
C21_UnfitGutterFinalizesOneRegion ==
  [][GutterStepUnfit =>
       LET n == Len(g.finished) + 1
           h == Resolved(g.rows[y + 1], g.regions.base.y)
       IN IF in_last(g.regions)
            THEN /\ g'.finished = g.finished
                 /\ Len(g'.lrows) = Len(g.lrows) + 1
                 /\ g'.lrows[Len(g'.lrows)].y = y
                 /\ g'.lrows[Len(g'.lrows)].frame.size.y = h
                 /\ g'.used.y = g.used.y + h
            ELSE /\ Len(g'.finished) = n
                 /\ [k \in 1..Len(g'.finished[n].item.rows) |->
                       g'.finished[n].item.rows[k].y] = [k \in 1..Len(g.lrows) |-> g.lrows[k].y]
                 /\ \A k \in 1..Len(g.lrows) : g.lrows[k].y # y
                 /\ g'.lrows = <<>> /\ g'.used.y = 0
                 /\ g'.regions = next(g.regions)]_vars

\* C21 witness: a gutter row 2pt high was reached with 1pt left in a region
\* that is not the last: the region was finalized with the content row
\* before the gutter as its last row, and the next region is untouched.
C21_Witness ==
  /\ pc = "rows" /\ y >= 2 /\ (y - 1) % 2 = 1 /\ g.rows[y].t = "linear"
  /\ g.finished # <<>> /\ g.lrows = <<>> /\ g.used.y = 0
  /\ g.regions.current.y = g.full
  /\ LET e == g.finished[Len(g.finished)]
     IN /\ ~e.item.region.last
        /\ e.item.region.full - e.item.region.used = Pt(1)
        /\ e.item.rows # <<>>
        /\ e.item.rows[Len(e.item.rows)].y = y - 2

\* C21 refuted as stated, the other way: a gutter row that does not fit the
\* last region was pushed into it.
C21_PushedInLastRegion ==
  /\ pc = "rows" /\ y >= 2 /\ (y - 1) % 2 = 1 /\ g.rows[y].t = "linear"
  /\ in_last(g.regions) /\ g.regions.current.y < 0
  /\ g.lrows # <<>> /\ g.lrows[Len(g.lrows)].y = y - 1
  /\ g.regions.current.y + g.lrows[Len(g.lrows)].frame.size.y >= 0

\* C22: a Linear gutter row that does not fit the current region while
\* further regions are available makes layout_linear_row finalize one region
\* in the first iteration of its loop and return without pushing the row; a
\* Linear gutter row that fits, or that is reached in the last region, is
\* pushed as a row and takes its height from the region, no region being
\* finalized.
C22_GutterSkipsAtMostOneRegion ==
  [][(pc = "skip" /\ y % 2 = 1) =>
       LET h == Resolved(g.rows[y + 1], g.regions.base.y)
       IN /\ i = 0 /\ pc' = "rows" /\ y' = y + 1
          /\ IF g.regions.current.y < h /\ ~in_last(g.regions)
               THEN /\ Len(g'.finished) = Len(g.finished) + 1
                    /\ g'.lrows = <<>>
               ELSE /\ g'.finished = g.finished
                    /\ Len(g'.lrows) = Len(g.lrows) + 1
                    /\ g'.lrows[Len(g'.lrows)].y = y
                    /\ g'.lrows[Len(g'.lrows)].frame.size.y = h
                    /\ g'.regions.current.y = LSub(g.regions.current.y, h)
                    /\ g'.used.y = g.used.y + h]_vars

\* C22 witness: a gutter row 7pt high did not fit a region of 6pt with a
\* region of 3pt after it, which it does not fit either: one region was
\* finalized in one iteration, the row was not pushed, and the layout is at
\* the next content row in the region of 3pt.
C22_Witness ==
  /\ pc = "rows" /\ y = 2 /\ i = 1 /\ g.rows[2] = Linear(Pt(7), 0)
  /\ Len(g.finished) = 1 /\ g.lrows = <<>>
  /\ g.finished[1].item.region.full = Pt(6) /\ ~g.finished[1].item.region.last
  /\ g.finished[1].item.rows # <<>>
  /\ g.regions.current.y = Pt(3) /\ g.full = Pt(3)

\* The other case of C22 reached: a gutter row 7pt high pushed into the
\* last region, of 6pt, which it overflows.
C22_PushedInLastRegion ==
  /\ pc = "rows" /\ y = 2 /\ i = 0 /\ g.rows[2] = Linear(Pt(7), 0)
  /\ g.finished = <<>> /\ in_last(g.regions)
  /\ g.lrows # <<>> /\ g.lrows[Len(g.lrows)].y = 1
  /\ g.regions.current.y < 0 /\ g.regions.current.y + Pt(7) >= 0

\* ------------------------------------------- flow fractional spacing
\* The step takes a fractional spacing child.
FractionalStep ==
  /\ pc = "flow" /\ i < Len(f.children)
  /\ f.children[i + 1].kind = "spacing" /\ f.children[i + 1].v.t = "fr"

\* The items of finished frame n that are fractional spacing, and the sum
\* of a field of theirs.
FrItemsOf(n) ==
  {k \in 1..Len(f.finished[n].item.marks) : f.finished[n].item.marks[k].kind = "fractional"}
FrWeightIn(n) ==
  SumSeq([k \in 1..Len(f.finished[n].item.marks) |->
            IF k \in FrItemsOf(n) THEN f.finished[n].item.marks[k].v ELSE 0])
FrAdvanceIn(n) ==
  SumSeq([k \in 1..Len(f.finished[n].item.marks) |->
            IF k \in FrItemsOf(n) THEN f.finished[n].item.marks[k].advance ELSE 0])

\* The second sentence of C23, of every finished region.
FractionalResolved ==
  \A n \in 1..Len(f.finished) :
    LET e == f.finished[n].item
        full == RegionAt(n)[1].size.y
        leftover == full - e.region.used.y
        total == FrWeightIn(n)
    IN (total > 0 /\ is_finite(full)) =>
         /\ e.size.y = full
         /\ \A k \in FrItemsOf(n) : e.marks[k].advance * total = e.marks[k].v * leftover
         /\ FrAdvanceIn(n) = leftover
         /\ \A k \in 1..(Len(e.marks) - 1) :
               e.marks[k + 1].offset = e.marks[k].offset + e.marks[k].advance
         /\ \A j \in 1..Len(e.items) : \E k \in 1..Len(e.marks) :
               /\ e.marks[k].child = e.items[j].child
               /\ e.marks[k].kind \in {"frame", "placed"}
               /\ e.items[j].pos.y = e.marks[k].offset

\* C23: a fractional spacing takes no region height when it is reached; a
\* finalized region of finite height with fractional weight > 0 yields a
\* frame of the region's full height in which each fractional item advances
\* the running offset by weight / total weight * (full height - used
\* height), the fractional amounts summing to the leftover height.
C23_FractionalSpacing ==
  [][/\ FractionalStep =>
          /\ f'.regions = f.regions /\ f'.used = f.used /\ f'.full = f.full
          /\ f'.finished = f.finished
          /\ f'.fr = f.fr + f.children[i + 1].v.fr
     /\ FractionalResolved']_vars

\* C23 witness: a region 10pt high finalized with a node 2pt high between
\* two fractional spacings of weight 1: each advances the offset by 4pt, the
\* node is at y = 4pt and the frame is 10pt high.
C23_Witness ==
  /\ pc = "done" /\ Len(f.finished) = 1 /\ ~regions.expand.y
  /\ LET e == f.finished[1].item
     IN /\ e.size.y = Pt(10) /\ e.region.used.y = Pt(2)
        /\ Len(e.marks) = 3 /\ FrItemsOf(1) = {1, 3}
        /\ e.marks[1].advance = Pt(4) /\ e.marks[3].advance = Pt(4)
        /\ Len(e.items) = 1 /\ e.items[1].pos.y = Pt(4)

\* --------------------------------------------- flow nodes that break
\* The step lays out a node that is in the flow; the region it is laid out
\* in is the current one, or the next one if the current one is full; the
\* frames the node's layout returns there.
BlockStep ==
  /\ pc = "flow" /\ i < Len(f.children)
  /\ f.children[i + 1].kind = "node" /\ ~f.children[i + 1].node.placed
StartRegions == IF is_full(f.regions) THEN next(f.regions) ELSE f.regions
FramesOfStep == NodeLayout(f.children[i + 1].node, StartRegions)

\* Child i + 1 is taken next, and child i is a node of the flow that broke:
\* its last frame is alone in the current region and the frame finished
\* last ends with a frame of it.
AfterBrokenNode ==
  /\ pc = "flow" /\ i >= 1 /\ i < Len(f.children)
  /\ f.children[i].kind = "node" /\ ~f.children[i].node.placed
  /\ f.finished # <<>>
  /\ LET its == f.finished[Len(f.finished)].item.items
     IN its # <<>> /\ its[Len(its)].child = i
  /\ Len(f.items) = 1 /\ f.items[1].kind = "frame" /\ f.items[1].child = i

\* What the region current before the step holds after it: the items of the
\* frame finished for it, or the items recorded if it is not finished.
RegionAfterStep ==
  IF Len(f'.finished) > Len(f.finished)
    THEN [k \in 1..Len(f'.finished[Len(f.finished) + 1].item.marks) |->
            f'.finished[Len(f.finished) + 1].item.marks[k].child]
    ELSE [k \in 1..Len(f'.items) |-> f'.items[k].child]

\* The first sentence of C24: the k >= 2 frames of a node go into k
\* consecutive regions in order, the region finalized after each but the
\* last.
FramesInConsecutiveRegions ==
  (BlockStep /\ Len(FramesOfStep) >= 2) =>
    LET frames == FramesOfStep
        k == Len(frames)
        base == Len(f.finished) + (IF is_full(f.regions) THEN 1 ELSE 0)
    IN /\ Len(f'.finished) = base + k - 1
       /\ \A j \in 1..(k - 1) :
            LET its == f'.finished[base + j].item.items
            IN /\ its # <<>>
               /\ its[Len(its)].child = i + 1 /\ its[Len(its)].size = frames[j]
               /\ j >= 2 => Len(its) = 1
               /\ \A m \in 1..(Len(its) - 1) : its[m].child # i + 1
       /\ Len(f'.items) = 1
       /\ f'.items[1].kind = "frame" /\ f'.items[1].child = i + 1
       /\ f'.items[1].size = frames[k]

\* C24 as stated: the frames of a node that breaks go into consecutive
\* regions, and the child after it is recorded in the region of the node's
\* last frame.
C24_BrokenNodeRegions ==
  [][/\ FramesInConsecutiveRegions
     /\ AfterBrokenNode => Len(RegionAfterStep) >= 2]_vars

\* C24 amended: a node of the flow whose layout returns k >= 2 frames has
\* them placed in k consecutive output frames in order, the region being
\* finalized after every frame but the last; the child after the node is
\* recorded in the region of the node's last frame, unless it is a node and
\* that region is full, in which case the region is finalized with the last
\* frame alone and the child is recorded in the next region.
C24_BrokenNodeRegionsUnlessFull ==
  [][/\ FramesInConsecutiveRegions
     /\ AfterBrokenNode =>
          IF f.children[i + 1].kind = "node" /\ is_full(f.regions)
            THEN /\ Len(f'.finished) > Len(f.finished)
                 /\ RegionAfterStep = <<i>>
            ELSE /\ Len(RegionAfterStep) >= 2
                 /\ RegionAfterStep[1] = i]_vars

\* C24 witness: a node 5pt high begun in a region of 1pt ended in the
\* following region of 6pt, and the next node is recorded after its last
\* frame in that region.
C24_Witness ==
  /\ pc = "flow" /\ i = 2 /\ regions.current.y = Pt(1)
  /\ regions.backlog # <<>> /\ regions.backlog[1].y = Pt(6)
  /\ f.children[1].kind = "node" /\ f.children[1].node.brk
  /\ f.children[2].kind = "node" /\ ~f.children[2].node.placed
  /\ Len(f.finished) = 1 /\ Len(f.finished[1].item.items) = 1
  /\ f.finished[1].item.items[1].child = 1 /\ f.finished[1].item.items[1].size.y = Pt(1)
  /\ Len(f.items) = 2
  /\ f.items[1].child = 1 /\ f.items[1].size.y = Pt(4) /\ f.items[2].child = 2

\* C24 refuted as stated: the node's last frame, 4pt high, ended flush with
\* a region of 4pt that is not the last; the region was finalized with that
\* frame alone and the next node is recorded in the region after it.
C24_NextRegion ==
  /\ pc = "flow" /\ i = 2 /\ regions.current.y = Pt(1)
  /\ regions.backlog # <<>> /\ regions.backlog[1].y = Pt(4) /\ regions.last # None
  /\ f.children[1].kind = "node" /\ f.children[1].node.brk
  /\ f.children[2].kind = "node" /\ ~f.children[2].node.placed
  /\ Len(f.finished) = 2
  /\ Len(f.finished[2].item.items) = 1
  /\ f.finished[2].item.items[1].child = 1 /\ f.finished[2].item.items[1].size.y = Pt(4)
  /\ Len(f.items) = 1 /\ f.items[1].child = 2

\* --------------------------------------------------- flow placed nodes
\* The step lays out a placed node that is out of flow.
PlacedStep ==
  /\ pc = "flow" /\ i < Len(f.children)
  /\ f.children[i + 1].kind = "node" /\ f.children[i + 1].node.placed

\* The step only records the placed node.
PlacedOnlyRecorded ==
  /\ f'.used = f.used /\ f'.regions = f.regions /\ f'.fr = f.fr /\ f'.full = f.full
  /\ f'.finished = f.finished
  /\ Len(f'.items) = Len(f.items) + 1
  /\ f'.items[Len(f'.items)].kind = "placed" /\ f'.items[Len(f'.items)].child = i + 1

\* In every finished frame a placed item is at x = 0 and y = the running
\* offset at its place in the item list, and leaves offset and ruler as
\* they are.
PlacedAtOffset ==
  \A n \in 1..Len(f.finished) :
    LET e == f.finished[n].item
    IN \A k \in 1..Len(e.marks) :
         e.marks[k].kind = "placed" =>
           /\ e.marks[k].advance = 0
           /\ e.marks[k].ruler = (IF k = 1 THEN "top" ELSE e.marks[k - 1].ruler)
           /\ k < Len(e.marks) => e.marks[k + 1].offset = e.marks[k].offset
           /\ \E j \in 1..Len(e.items) :
                /\ e.items[j].child = e.marks[k].child
                /\ e.items[j].pos = Size(0, e.marks[k].offset)

\* The children without child k, and the geometry of returned frames
\* without the items of child c.
WithoutChild(children, k) ==
  SubSeq(children, 1, k - 1) \o SubSeq(children, k + 1, Len(children))
GeometryOthers(frames, c) ==
  [n \in 1..Len(frames) |->
     LET others == SelectSeq(frames[n].item.items, LAMBDA it : it.child # c)
     IN [size |-> frames[n].item.size,
         items |-> [j \in 1..Len(others) |->
                      [pos |-> others[j].pos, size |-> others[j].size]]]]

\* The placed children of the flow, and whether the region is full when
\* child k is reached.
PlacedChildren ==
  {k \in 1..Len(node.children) :
     node.children[k].kind = "node" /\ node.children[k].node.placed}
FullWhenReached(k) == is_full(FlowStateAfter(FlowNew(node, regions), 1, k - 1).regions)

\* C25 as stated: a placed node that is out of flow leaves used size,
\* remaining region size and fractional total unchanged; its frame is
\* placed at x = 0 and the running offset without advancing it or changing
\* the ruler; the frames are the same as without the placed node, but for
\* its frame.
C25_PlacedNodeOutOfFlow ==
  [][/\ PlacedStep => PlacedOnlyRecorded
     /\ PlacedAtOffset'
     /\ (pc' = "done" /\ f'.finished # <<>>) =>
          \A k \in PlacedChildren :
            GeometryOthers(f'.finished, k)
              = Geometry(FlowLayout(FlowNode(WithoutChild(node.children, k)), regions))]_vars

\* C25 amended: a placed node that is out of flow, reached while the
\* current region is not full, leaves used size, remaining region size and
\* fractional total unchanged (reached in a full region, it makes the flow
\* finalize that region first, as any node does); at finalization its frame
\* is placed at x = 0 and y = the running offset at its position in the
\* item list, advancing neither the offset nor the ruler; if the region was
\* not full when it was reached, the positions of all other items and the
\* frame sizes are the same as without the placed node.
C25_PlacedNodeOutOfFlowUnlessFull ==
  [][/\ PlacedStep =>
          IF is_full(f.regions)
            THEN /\ Len(f'.finished) = Len(f.finished) + 1
                 /\ Len(f'.items) = 1 /\ f'.items[1].kind = "placed"
                 /\ f'.used = Size(0, 0) /\ f'.fr = 0
            ELSE PlacedOnlyRecorded
     /\ PlacedAtOffset'
     /\ (pc' = "done" /\ f'.finished # <<>>) =>
          \A k \in PlacedChildren :
            ~FullWhenReached(k) =>
              GeometryOthers(f'.finished, k)
                = Geometry(FlowLayout(FlowNode(WithoutChild(node.children, k)), regions))]_vars

\* C25 witness: a placed node between two nodes 2pt high in a region of
\* 10pt: it is at y = 2pt, and so is the node after it.
C25_Witness ==
  /\ pc = "done" /\ Len(f.finished) = 1 /\ PlacedChildren = {2}
  /\ regions.current.y = Pt(10)
  /\ LET e == f.finished[1].item
     IN /\ Len(e.items) = 3
        /\ e.items[1].pos = Size(0, 0) /\ e.items[1].size.y = Pt(2)
        /\ e.items[2].child = 2 /\ e.items[2].pos = Size(0, Pt(2))
        /\ e.items[3].pos = Size(0, Pt(2))
        /\ e.size.y = Pt(4)

\* C25 refuted as stated: a placed node reached in a full region: the
\* region was finalized and the placed node is the first item of the next.
C25_FullRegion ==
  /\ pc = "flow" /\ i = 2 /\ PlacedChildren = {2}
  /\ f.children[1].kind = "node"
  /\ Len(f.finished) = 1 /\ Len(f.finished[1].item.items) = 1
  /\ Len(f.items) = 1 /\ f.items[1].kind = "placed" /\ f.items[1].child = 2

\* ----------------------------------------------- flow vertical alignment
\* Top < Horizon < Bottom, and how far an alignment moves a frame down in a
\* free length.
RankOf(a) == IF a = "top" THEN 0 ELSE IF a = "horizon" THEN 1 ELSE 2
ShiftIn(a, free) == IF a = "top" THEN 0 ELSE IF a = "horizon" THEN free \div 2 ELSE free

\* Of finished frame n: the places in the item list of the items that have a
\* frame (item j of the output is the j-th of them), those of node frames,
\* and the highest alignment among the node frames up to place k.
FramePlaces(n) ==
  SelectSeq([k \in 1..Len(f.finished[n].item.marks) |-> k],
            LAMBDA k : f.finished[n].item.marks[k].kind \in {"frame", "placed"})
NodePlaces(n) ==
  {k \in 1..Len(f.finished[n].item.marks) : f.finished[n].item.marks[k].kind = "frame"}
HighestUpTo(n, k) ==
  LET m == f.finished[n].item.marks
  IN IF \E j \in NodePlaces(n) : j <= k
       THEN m[CHOOSE j \in NodePlaces(n) :
                /\ j <= k
                /\ \A l \in NodePlaces(n) : l <= k => RankOf(m[l].align) <= RankOf(m[j].align)].align
       ELSE "top"

\* The free height the alignment of finished frame n moves frames in: the
\* height of the frame less the used height, the used height being the full
\* height when fractional spacing fills the region.
FreeIn(n) ==
  LET e == f.finished[n].item
      fill == e.region.fr > 0 /\ is_finite(e.region.full.y)
  IN e.size.y - (IF fill THEN e.region.full.y ELSE e.region.used.y)

\* The y of the frame at place k of finished frame n.
PosYAt(n, k) ==
  LET j == CHOOSE j \in 1..Len(FramePlaces(n)) : FramePlaces(n)[j] = k
  IN f.finished[n].item.items[j].pos.y

\* The first half of C26: a node frame's y is the running offset plus the
\* shift of the highest alignment among the node frames of the region up to
\* and including it; the ruler starts at Top and never decreases.
PlacedByRuler ==
  \A n \in 1..Len(f.finished) :
    LET e == f.finished[n].item
    IN /\ Len(FramePlaces(n)) = Len(e.items)
       /\ \A k \in NodePlaces(n) :
            PosYAt(n, k) = e.marks[k].offset + ShiftIn(HighestUpTo(n, k), FreeIn(n))
       /\ \A k \in 1..Len(e.marks) :
            /\ e.marks[k].ruler = HighestUpTo(n, k)
            /\ k > 1 => RankOf(e.marks[k].ruler) >= RankOf(e.marks[k - 1].ruler)

\* Node frames a before b of finished frame n, b with a lower alignment
\* than the highest up to a.
LowerLater(n, a, b) ==
  /\ a \in NodePlaces(n) /\ b \in NodePlaces(n) /\ a < b
  /\ RankOf(f.finished[n].item.marks[b].align) < RankOf(HighestUpTo(n, a))

\* C26 as stated: frames are placed by the ruler, and a later frame with a
\* lower alignment is not placed above an earlier frame.
C26_AlignmentRuler ==
  /\ PlacedByRuler
  /\ \A n \in 1..Len(f.finished) :
       \A a, b \in NodePlaces(n) : LowerLater(n, a, b) => PosYAt(n, b) >= PosYAt(n, a)

\* C26 amended: within one region, a node frame's y position is the running
\* offset plus the alignment shift of the highest vertical alignment among
\* the node frames of that region up to and including it; the ruler starts
\* at Top in every region and never decreases within a region, so a later
\* frame with a lower alignment gets the same shift as the earlier frames:
\* it is below an earlier frame by what the items from that frame on advance
\* the offset, which puts it above when that is negative.
C26_AlignmentRulerSameShift ==
  /\ PlacedByRuler
  /\ \A n \in 1..Len(f.finished) :
       \A a, b \in NodePlaces(n) :
         LowerLater(n, a, b) =>
           PosYAt(n, b) - PosYAt(n, a)
             = SumSeq([k \in 1..(b - a) |-> f.finished[n].item.marks[a + k - 1].advance])

\* C26 witness: a region of 10pt that expands, a bottom-aligned node 2pt
\* high and then a top-aligned one 2pt high: the first is at y = 6pt, the
\* second keeps the bottom shift and is at y = 8pt.
C26_Witness ==
  /\ pc = "done" /\ Len(f.finished) = 1 /\ regions.expand.y
  /\ LET e == f.finished[1].item
     IN /\ e.size.y = Pt(10) /\ Len(e.marks) = 2 /\ NodePlaces(1) = {1, 2}
        /\ e.marks[1].align = "bottom" /\ e.marks[2].align = "top"
        /\ e.items[1].pos.y = Pt(6) /\ e.items[2].pos.y = Pt(8)

\* C26 refuted as stated: in an overfull region a fractional spacing between
\* a bottom-aligned node and a later top-aligned node moved the offset back,
\* and the later node is above the earlier one.
C26_Above ==
  /\ pc = "done" /\ Len(f.finished) = 1
  /\ LET e == f.finished[1].item
     IN /\ Len(e.marks) = 3 /\ NodePlaces(1) = {1, 3}
        /\ e.marks[2].kind = "fractional" /\ e.marks[2].advance < 0
        /\ e.marks[1].align = "bottom" /\ e.marks[3].align = "top"
        /\ e.items[2].pos.y < e.items[1].pos.y

\* -------------------------------------------------------- grid Auto rows
\* The step lays out an Auto row; the layouter as it is when the row is
\* measured (after the check for a full region), and the heights its cells
\* measure to, one per region.
AutoStep == pc = "rows" /\ y < Len(g.rows) /\ g.rows[y + 1].t = "auto"
AtRow == IF y % 2 = 0 /\ is_full(g.regions) THEN finish_region(g) ELSE g
MeasuredHeights == AutoRowHeights(AtRow, y, 0, <<>>)

\* C27: an Auto row whose cells measure to n >= 2 region heights yields n
\* row frames in n consecutive regions, with n - 1 finalizations between
\* them; with no fractional row weight in the current region each of the
\* first n - 1 heights is raised to at least the remaining height of its
\* region; an Auto row measuring to one height is pushed as a single row
\* into the current region.
C27_AutoRowAcrossRegions ==
  [][AutoStep =>
       LET measured == MeasuredHeights
           n == Len(measured)
           base == Len(AtRow.finished)
           last == g'.lrows[Len(g'.lrows)]
       IN /\ n >= 2 =>
               /\ Len(g'.finished) = base + n - 1
               /\ \A j \in 1..(n - 1) :
                    LET rows == g'.finished[base + j].item.rows
                        row == rows[Len(rows)]
                        remaining == RegionIterY(AtRow.regions, j)
                    IN /\ rows # <<>> /\ row.y = y /\ row.kind = "frame"
                       /\ Len(rows) = (IF j = 1 THEN Len(AtRow.lrows) ELSE 0) + 1
                       /\ remaining # None
                       /\ row.height >= measured[j]
                       /\ AtRow.fr = 0 => row.height = Max(measured[j], remaining[1])
               /\ Len(g'.lrows) = 1
               /\ last.y = y /\ last.kind = "frame" /\ last.frame.size.y = measured[n]
          /\ n = 1 =>
               /\ g'.finished = AtRow.finished
               /\ Len(g'.lrows) = Len(AtRow.lrows) + 1
               /\ last.y = y /\ last.kind = "frame" /\ last.frame.size.y = measured[1]
               /\ g'.regions.current.y = LSub(AtRow.regions.current.y, measured[1])]_vars

\* C27 witness: a paragraph of two lines 4pt high in regions of 6pt, 3pt
\* and 6pt measures to 4pt, 0pt and 4pt: the row has a frame 6pt high in the
\* first region, one 3pt high in the second and its last, 4pt high, in the
\* third.
C27_Witness ==
  /\ pc = "rows" /\ y = 1 /\ g.rows[1].t = "auto"
  /\ Len(g.finished) = 2 /\ Len(g.lrows) = 1
  /\ g.finished[1].item.rows[1].height = Pt(6) /\ g.finished[1].item.region.full = Pt(6)
  /\ g.finished[2].item.rows[1].height = Pt(3) /\ g.finished[2].item.region.full = Pt(3)
  /\ g.lrows[1].frame.size.y = Pt(4)
  /\ g.finished[1].item.items # <<>>
  /\ g.finished[1].item.items[1].size.y = Pt(6)

\* ----------------------------------------------- per-region accumulators
\* The track indices of a list of rows, and kind and child of a list of items.
RowIndices(rows) == [k \in 1..Len(rows) |-> rows[k].y]
ItemKinds(items) == [k \in 1..Len(items) |-> <<items[k].kind, items[k].child>>]

\* The accumulators of the layouter that runs agree with the list recorded
\* for the current region: the fractional total is the weight recorded, and
\* used and remaining height make up the full height; the full width of the
\* flow is the region's.
AccumulatorsOfRegion ==
  /\ pc \in {"rows", "done"} /\ g # Idle =>
       /\ g.fr = SumSeq([k \in 1..Len(g.lrows) |->
                           IF g.lrows[k].kind = "fr" THEN g.lrows[k].v ELSE 0])
       /\ g.used.y = SumSeq([k \in 1..Len(g.lrows) |->
                               IF g.lrows[k].kind = "fr" THEN 0 ELSE g.lrows[k].frame.size.y])
       /\ is_finite(g.full) => g.used.y + g.regions.current.y = g.full
  /\ pc \in {"flow", "done"} /\ f # Idle =>
       /\ f.fr = SumSeq([k \in 1..Len(f.items) |->
                           IF f.items[k].kind = "fractional" THEN f.items[k].v ELSE 0])
       /\ is_finite(f.full.y) => f.used.y + f.regions.current.y = f.full.y
       /\ f.full.x = f.regions.current.x
       /\ f.items = <<>> => f.used = Size(0, 0)

\* The step is the finalization of a region and nothing else: the one after
\* the last row or child.
FinalStep ==
  \/ pc = "rows" /\ y >= Len(g.rows)
  \/ pc = "flow" /\ i >= Len(f.children)

\* After the finalization of a region the lists are empty, used height and
\* fractional total are zero and the full size is that of the region now
\* current; the frame holds what was recorded.
ResetAfterFinal ==
  IF pc = "rows"
    THEN /\ g'.lrows = <<>> /\ g'.used.y = 0 /\ g'.fr = 0
         /\ g'.regions = next(g.regions) /\ g'.full = g'.regions.current.y
         /\ Len(g'.finished) = Len(g.finished) + 1
         /\ RowIndices(g'.finished[Len(g'.finished)].item.rows) = RowIndices(g.lrows)
    ELSE /\ f'.items = <<>> /\ f'.used = Size(0, 0) /\ f'.fr = 0
         /\ f'.regions = next(f.regions) /\ f'.full = f'.regions.current
         /\ Len(f'.finished) = Len(f.finished) + 1
         /\ ItemKinds(f'.finished[Len(f'.finished)].item.marks) = ItemKinds(f.items)

\* A step that lays out a row or a child and finalizes regions: the first
\* frame it finishes holds what the region had and at most what the step
\* records, every later frame and the list left hold only what the step
\* records.
NothingCarriedOver ==
  /\ (pc = "rows" /\ y < Len(g.rows) /\ Len(g'.finished) > Len(g.finished)) =>
       LET n == Len(g.finished) + 1
           first == RowIndices(g'.finished[n].item.rows)
       IN /\ first \in {RowIndices(g.lrows), Append(RowIndices(g.lrows), y)}
          /\ \A m \in (n + 1)..Len(g'.finished) :
               RowIndices(g'.finished[m].item.rows) \in {<<>>, <<y>>}
          /\ RowIndices(g'.lrows) \in {<<>>, <<y>>}
  /\ (pc = "flow" /\ i < Len(f.children) /\ Len(f'.finished) > Len(f.finished)) =>
       LET n == Len(f.finished) + 1
           first == ItemKinds(f'.finished[n].item.marks)
           kind == IF f.children[i + 1].node.placed THEN "placed" ELSE "frame"
       IN /\ first \in {ItemKinds(f.items), Append(ItemKinds(f.items), <<kind, i + 1>>)}
          /\ \A m \in (n + 1)..Len(f'.finished) :
               ItemKinds(f'.finished[m].item.marks) = << <<kind, i + 1>> >>
          /\ ItemKinds(f'.items) = << <<kind, i + 1>> >>

\* C28: per-region accumulators do not leak between regions, in flow and in
\* grid: after a region finalization the list of recorded items or rows is
\* empty, the used height and the fractional total are zero and the full
\* size is that of the region now current; each returned frame contains
\* only items or rows recorded since the previous finalization.
C28_AccumulatorsReset ==
  [][/\ FinalStep => ResetAfterFinal
     /\ NothingCarriedOver
     /\ AccumulatorsOfRegion']_vars

\* C28 witness, grid: a region with a fractional row was finalized for a
\* row that went to the next region, where the fractional total is zero
\* again and the used height is that of the one row recorded.
C28_Witness ==
  /\ pc = "rows" /\ Len(g.finished) >= 1
  /\ g.finished[Len(g.finished)].item.region.fr > 0
  /\ g.finished[Len(g.finished)].item.region.used > 0
  /\ g.fr = 0 /\ Len(g.lrows) = 1 /\ g.lrows[1].kind = "frame"
  /\ g.used.y = g.lrows[1].frame.size.y /\ g.full = g.regions.current.y + g.used.y

\* C28 witness, flow: a region with fractional spacing was finalized between
\* the frames of a node, and the next region holds the node's last frame
\* only, with no fractional total.
C28_FlowReset ==
  /\ pc = "flow" /\ Len(f.finished) >= 1
  /\ f.finished[Len(f.finished)].item.region.fr > 0
  /\ f.fr = 0 /\ Len(f.items) = 1 /\ f.items[1].kind = "frame"
  /\ f.used.y = f.items[1].size.y

\* ------------------------------------------------- placement of the rows
\* Where the row of track index yy is placed in the returned frames: the
\* frame and the place in the frame's list of rows.
PlacesOfRow(yy) ==
  {p \in UNION {{<<n, k>> : k \in 1..Len(g.finished[n].item.rows)} :
                  n \in 1..Len(g.finished)} :
     g.finished[p[1]].item.rows[p[2]].y = yy}

\* The row placed at p.
RowAt(p) == g.finished[p[1]].item.rows[p[2]]

\* The content rows (even track indices) sized Linear or Fractional.
SizedRows ==
  {yy \in 0..(Len(g.rows) - 1) : yy % 2 = 0 /\ g.rows[yy + 1].t \in {"linear", "fr"}}

\* Every content row sized Linear or Fractional is in exactly one frame, once.
PlacedExactlyOnce == \A yy \in SizedRows : Cardinality(PlacesOfRow(yy)) = 1

\* Within a frame the y offset of a row is the sum of the heights of the
\* rows before it.
OffsetIsSumOfHeights ==
  \A n \in 1..Len(g.finished) :
    LET rows == g.finished[n].item.rows
    IN \A k \in 1..Len(rows) :
         rows[k].pos = SumSeq([j \in 1..(k - 1) |-> rows[j].height])

\* A row of larger index is in no earlier frame than a row of smaller index
\* and, in the same frame, later in the list of rows.
IndexOrderKept ==
  \A ya, yb \in 0..(Len(g.rows) - 1) :
    ya < yb => \A a \in PlacesOfRow(ya), b \in PlacesOfRow(yb) :
                 /\ a[1] <= b[1]
                 /\ a[1] = b[1] => a[2] < b[2]

\* A row of larger index is not above a row of smaller index of its frame.
NeverAbove ==
  \A ya, yb \in 0..(Len(g.rows) - 1) :
    ya < yb => \A a \in PlacesOfRow(ya), b \in PlacesOfRow(yb) :
                 a[1] = b[1] => RowAt(a).pos <= RowAt(b).pos

\* The rows of the frame fit its region: no row of the frame has a negative
\* height.
NoNegativeRow(n) ==
  \A k \in 1..Len(g.finished[n].item.rows) : g.finished[n].item.rows[k].height >= 0

\* C29 as claimed: across the returned frames every content row sized Linear
\* or Fractional is placed exactly once, a row of larger index is never in
\* an earlier region than, or above in the same region, a row of smaller
\* index, and each row's y offset is the sum of the heights of the rows
\* placed before it in its region.
C29_RowsPlacedInOrder ==
  pc = "done" =>
    /\ PlacedExactlyOnce
    /\ IndexOrderKept
    /\ NeverAbove
    /\ OffsetIsSumOfHeights

\* C29 amended: across the returned frames every content row sized Linear
\* or Fractional is placed exactly once, a row of larger index is never in
\* an earlier region than a row of smaller index and is later in the rows
\* of the same region, and not above it unless a row of that region has a
\* negative height; each row's y offset is the sum of the heights of the
\* rows placed before it in its region.
C29_RowsPlacedInOrderUnlessNegative ==
  pc = "done" =>
    /\ PlacedExactlyOnce
    /\ IndexOrderKept
    /\ OffsetIsSumOfHeights
    /\ \A ya, yb \in 0..(Len(g.rows) - 1) :
         ya < yb => \A a \in PlacesOfRow(ya), b \in PlacesOfRow(yb) :
                      (a[1] = b[1] /\ NoNegativeRow(a[1])) => RowAt(a).pos <= RowAt(b).pos

\* C29 witness: a grid returned two frames, a Linear content row and the
\* gutter row below it, at the height of the Linear row, in the first and a
\* Fractional content row in the second.
C29_Witness ==
  /\ pc = "done" /\ Len(g.finished) = 2
  /\ \E yy \in SizedRows : g.rows[yy + 1].t = "linear" /\ PlacesOfRow(yy) = {<<1, 1>>}
  /\ Len(g.finished[1].item.rows) = 2
  /\ RowAt(<<1, 2>>).y = 1
  /\ RowAt(<<1, 2>>).pos = RowAt(<<1, 1>>).height
  /\ RowAt(<<1, 1>>).height > 0
  /\ \E yy \in SizedRows :
       /\ g.rows[yy + 1].t = "fr" /\ PlacesOfRow(yy) = {<<2, 1>>}
       /\ RowAt(<<2, 1>>).height > 0

\* C29, the refuting case: in a single region of 6pt a Fractional row is
\* followed by a gutter row of 2pt and an Auto row of 5pt; the Fractional
\* row gets -1pt and the gutter row is placed at -1pt, above it.
C29_GutterAboveFractionalRow ==
  /\ pc = "done" /\ Len(g.finished) = 1
  /\ Len(g.finished[1].item.rows) = 3
  /\ RowAt(<<1, 1>>).kind = "fr" /\ RowAt(<<1, 1>>).height = -Pt(1)
  /\ RowAt(<<1, 1>>).pos = 0 /\ RowAt(<<1, 2>>).pos = -Pt(1)
  /\ RowAt(<<1, 2>>).y = 1 /\ RowAt(<<1, 2>>).height = Pt(2)

\* ------------------------------------------------- width constraints
\* The width part of constraints: minimum, exact and maximum width.
WidthCts(cts) == <<cts.min.x, cts.exact.x, cts.max.x>>

\* The width constraint column measurement determines for the grid and the
\* regions given.
MeasuredWidthCts == WidthCts(measure_columns(GridNew(node, regions)).cts)

\* C30: the width constraint determined by column measurement (minimum,
\* exact or maximum width) is in the constraints of every frame the grid
\* returns, those of the second and later regions included.
C30_WidthConstraintInEveryFrame ==
  pc \in {"rows", "done"} =>
    \A n \in 1..Len(g.finished) : WidthCts(g.finished[n].cts) = MeasuredWidthCts

\* The frame of the first region has the width constraint of column
\* measurement, every later frame has none.
WidthConstraintInFirstFrameOnly ==
  pc \in {"rows", "done"} =>
    \A n \in 1..Len(g.finished) :
      WidthCts(g.finished[n].cts) =
        IF n = 1 THEN MeasuredWidthCts ELSE <<None, None, None>>

\* C30, the refuting case: columns [2pt, Auto] shrunk to a region 4pt wide
\* have the exact width 4pt as constraint; the grid returned two frames, the
\* first with that constraint and the second with no width constraint.
C30_SecondFrameUnconstrained ==
  /\ pc = "done" /\ Len(g.finished) = 2
  /\ MeasuredWidthCts = <<None, Some(regions.current.x), None>>
  /\ WidthCts(g.finished[1].cts) = MeasuredWidthCts
  /\ WidthCts(g.finished[2].cts) = <<None, None, None>>
  /\ g.finished[2].item.rows # <<>>

\* ------------------------------------------- minimum width constraint
\* Column measurement ended in the fitting case: an Auto or Fractional
\* column exists, the Auto columns fit the available space and no column
\* was grown or shrunk; no region has been finalized since.
FittingCase ==
  /\ pc = "rows" /\ g.finished = <<>>
  /\ ColsOf("auto") \cup ColsOf("fr") # {}
  /\ TotalWeight = 0
  /\ Available >= 0 /\ Leftover >= 0

\* C31: when column measurement ends in the fitting case, the recorded
\* minimum width constraint equals the sum of the resolved column widths,
\* the grid's used width.
C31_FittingMinimumIsUsedWidth ==
  FittingCase =>
    /\ g.used.x = SumSeq(g.rcols)
    /\ g.cts.min.x = Some(g.used.x)

\* In the fitting case the minimum width recorded is zero, the used width
\* the layouter was created with, and the used width is the sum of the
\* resolved column widths.
FittingMinimumIsZero ==
  FittingCase =>
    /\ g.used.x = SumSeq(g.rcols)
    /\ g.cts.min.x = Some(0)
    /\ g.cts.exact.x = None /\ g.cts.max.x = None

\* C31, the refuting case: columns [2pt, Auto] whose Auto column holds
\* content fit the region; the used width is positive and the minimum width
\* recorded is zero.
C31_MinimumBelowUsedWidth ==
  /\ FittingCase
  /\ \E a \in ColsOf("auto") : g.rcols[a] > 0
  /\ \E l \in ColsOf("linear") : g.rcols[l] > 0
  /\ g.used.x > 0
  /\ g.cts.min.x = Some(0)

\* ------------------------------------------------- fair-share shrink
\* measure_columns has called shrink_auto_columns: the Auto columns measured
\* to more than the available space.
ShrinkCase == pc # "measure" /\ Available >= 0 /\ Leftover < 0

\* The Auto columns measured wider than the fair share, available / count.
OverTarget ==
  {k \in ColsOf("auto") : MeasuredOf(k) * Cardinality(ColsOf("auto")) > Available}

\* The share of the columns over the fair share: what the others leave of
\* the available space, divided equally.
Share ==
  (Available - SumOver(ColsOf("auto") \ OverTarget, MeasuredOf)) \div Cardinality(OverTarget)

\* C32 as claimed: after shrink_auto_columns every Auto column's width is
\* less than or equal to the width measured for it before the shrink.
C32_ShrinkNeverWidens ==
  ShrinkCase => \A k \in ColsOf("auto") : g.rcols[k] <= MeasuredOf(k)

\* C32 amended: after shrink_auto_columns the Auto columns are narrower in
\* total, and every Auto column's width is less than or equal to the width
\* measured for it, except for a column over the fair share that measured
\* less than the share of the columns over the fair share: it is widened to
\* that share.
C32_ShrinkWidensOnlyToShare ==
  ShrinkCase =>
    /\ SumOver(ColsOf("auto"), RcolOf) < SumOver(ColsOf("auto"), MeasuredOf)
    /\ \A k \in ColsOf("auto") :
         \/ g.rcols[k] <= MeasuredOf(k)
         \/ k \in OverTarget /\ MeasuredOf(k) < Share /\ g.rcols[k] = Share

\* C32 witness: three Auto columns shrunk, one within the fair share kept
\* and two narrowed to the share.
C32_Witness ==
  /\ pc = "rows" /\ ShrinkCase /\ Cardinality(ColsOf("auto")) = 3
  /\ Cardinality(OverTarget) = 2
  /\ \A k \in OverTarget : g.rcols[k] = Share /\ g.rcols[k] < MeasuredOf(k)
  /\ \A k \in ColsOf("auto") \ OverTarget : MeasuredOf(k) > 0 /\ g.rcols[k] = MeasuredOf(k)

\* C32, the refuting case: Auto columns measured 1pt, 3pt and 5pt in a
\* region 8pt wide; the fair share is 8/3 pt, the column of 1pt is kept and
\* the other two share 7pt: the column of 3pt is widened to 3.5pt.
C32_ColumnWidened ==
  /\ pc = "rows" /\ ShrinkCase
  /\ \E k \in OverTarget :
       /\ MeasuredOf(k) = Pt(3) /\ g.rcols[k] = Share
       /\ 2 * Share = Pt(7)

\* ------------------------------------------- offset and used height
\* The step lays out an absolute (linear) spacing.
AbsoluteStep ==
  /\ pc = "flow" /\ i < Len(f.children)
  /\ f.children[i + 1].kind = "spacing" /\ f.children[i + 1].v.t = "linear"

\* The running offset after the last item of finished frame n.
FinalOffset(n) ==
  LET marks == f.finished[n].item.marks
  IN IF marks = <<>> THEN 0
     ELSE marks[Len(marks)].offset + marks[Len(marks)].advance

\* The items of finished frame n that are frames of nodes in the flow.
NodeFramesOf(n) ==
  {j \in 1..Len(f.finished[n].item.items) :
     ~f.children[f.finished[n].item.items[j].child].node.placed}

\* In every finalized region without fractional spacing the running offset
\* after the last item is the used height recorded, and without vertical
\* expansion no node frame ends below the bottom of the output frame.
OffsetIsUsedHeight ==
  \A n \in 1..Len(f.finished) :
    LET e == f.finished[n].item
    IN e.region.fr = 0 =>
         /\ FinalOffset(n) = e.region.used.y
         /\ ~regions.expand.y =>
              \A j \in NodeFramesOf(n) : e.items[j].pos.y + e.items[j].size.y <= e.size.y

\* C33: in every finalized region without fractional spacing, the running
\* vertical offset after the last item equals the used height recorded for
\* the region: each absolute spacing item advances the offset by exactly the
\* amount it took from the region, so without vertical expansion no node
\* frame is placed below the bottom of the output frame.
C33_OffsetIsUsedHeight ==
  [][/\ AbsoluteStep =>
          /\ Len(f'.items) = Len(f.items) + 1
          /\ f'.items[Len(f'.items)].kind = "absolute"
          /\ f'.items[Len(f'.items)].v = f'.used.y - f.used.y
          /\ is_finite(f.regions.current.y) =>
               f'.items[Len(f'.items)].v = f.regions.current.y - f'.regions.current.y
     /\ pc' \in {"flow", "done"} => OffsetIsUsedHeight']_vars

\* C33, the refuting case: in a single region 1pt high two spacings of 1pt
\* are followed by a node 2pt high; the second spacing takes nothing from
\* the region but advances the offset by 1pt, so the node is placed at
\* y = 2pt in an output frame 3pt high and ends 1pt below its bottom.
C33_FrameBelowBottom ==
  /\ pc = "done" /\ Len(f.finished) = 1 /\ ~regions.expand.y
  /\ LET e == f.finished[1].item
     IN /\ e.region.fr = 0 /\ e.region.full.y = Pt(1)
        /\ Len(e.marks) = 3
        /\ e.marks[1].kind = "absolute" /\ e.marks[1].advance = Pt(1)
        /\ e.marks[2].kind = "absolute" /\ e.marks[2].advance = Pt(1)
        /\ e.marks[3].kind = "frame" /\ e.marks[3].offset = Pt(2)
        /\ e.region.used.y = Pt(3) /\ e.size.y = Pt(3)
        /\ FinalOffset(1) = Pt(4)
        /\ e.items[1].pos.y = Pt(2) /\ e.items[1].size.y = Pt(2)

\* An absolute spacing always advances the offset by the amount resolved
\* against the full height, and takes that amount limited to the remaining
\* height from the region.
AbsoluteAdvancesByResolved ==
  [][AbsoluteStep =>
       LET resolved == LinearResolve(f.children[i + 1].v, f.full.y)
       IN /\ f'.items[Len(f'.items)].v = resolved
          /\ f'.used.y - f.used.y = Min(resolved, f.regions.current.y)]_vars

====
